---- MODULE Spec2Model ----
(***************************************************************************)
(* A model of json-codemod: the Tokenizer, the CSTBuilder, the path        *)
(* resolver and the patch functions replace / insert / remove / batch.     *)
(*                                                                         *)
(* A text is a sequence of one-character strings.  Offsets are 0-based,    *)
(* as in the JavaScript source: a span [start, end) of a text t is         *)
(* slice(t, start, end).                                                   *)
(***************************************************************************)
EXTENDS Integers, Sequences, FiniteSets, TLC

(***************************************************************************)
(* Bounds of the model.                                                    *)
(***************************************************************************)
\* longest generated source text
MaxLen == 3
\* most patches in one call on a document
MaxPatches == 2

(***************************************************************************)
(* JavaScript values and string primitives.                                *)
(***************************************************************************)
\* the value `undefined`: a read past the end of a string or array, a
\* property that an object does not have
Undefined == "undefined"

\* the value `null` returned by the path resolver
Null == [type |-> "null"]

Min(a, b) == IF a < b THEN a ELSE b

Max(a, b) == IF a > b THEN a ELSE b

\* text[i]
At(text, i) == IF 0 <= i /\ i < Len(text) THEN text[i + 1] ELSE Undefined

\* text.slice(from, to) for non-negative arguments: both are clamped to
\* the length of the text
slice(text, from, to) ==
  LET f == Min(Max(from, 0), Len(text))
      t == Min(Max(to, 0), Len(text))
  IN  IF f >= t THEN << >> ELSE SubSeq(text, f + 1, t)

\* text.slice(from)
sliceFrom(text, from) == slice(text, from, Len(text))

LowerLetters ==
  {"a", "b", "c", "d", "e", "f", "g", "h", "i", "j", "k", "l", "m",
   "n", "o", "p", "q", "r", "s", "t", "u", "v", "w", "x", "y", "z"}

UpperLetters ==
  {"A", "B", "C", "D", "E", "F", "G", "H", "I", "J", "K", "L", "M",
   "N", "O", "P", "Q", "R", "S", "T", "U", "V", "W", "X", "Y", "Z"}

Digits == {"0", "1", "2", "3", "4", "5", "6", "7", "8", "9"}

(***************************************************************************)
(* Tokenizer.js                                                            *)
(***************************************************************************)
isWhitespace(ch) == ch \in {" ", "\n", "\r", "\t"}

isDigit(ch) == ch \in Digits

isNumberStart(ch) == ch = "-" \/ ch \in Digits

isAlpha(ch) == ch \in LowerLetters \/ ch \in UpperLetters

\* while (pos < text.length && text[pos] is in S) pos++
RECURSIVE skipWhile(_, _, _)
skipWhile(text, pos, S) ==
  IF pos < Len(text) /\ At(text, pos) \in S
  THEN skipWhile(text, pos + 1, S)
  ELSE pos

Token(type, start, end) == [type |-> type, start |-> start, end |-> end]

\* the position after the whitespace run that starts at pos
readWhitespace(text, pos) == skipWhile(text, pos, {" ", "\n", "\r", "\t"})

\* the loop of readString; pos is already past the opening quote
RECURSIVE readStringLoop(_, _)
readStringLoop(text, pos) ==
  IF pos < Len(text)
  THEN IF At(text, pos) = "\\" THEN readStringLoop(text, pos + 2)
       ELSE IF At(text, pos) = "\"" THEN pos + 1
       ELSE readStringLoop(text, pos + 1)
  ELSE pos

\* the position after the string token that starts at pos
readString(text, pos) == readStringLoop(text, pos + 1)

\* readNumber, from the exponent on: pos is after the fraction
readExponent(text, pos) ==
  IF At(text, pos) \in {"e", "E"}
  THEN skipWhile(text, IF At(text, pos + 1) \in {"+", "-"} THEN pos + 2 ELSE pos + 1,
                 Digits)
  ELSE pos

\* readNumber, from the fraction on: pos is after the integer digits
readFraction(text, pos) ==
  readExponent(text, IF At(text, pos) = "." THEN skipWhile(text, pos + 1, Digits)
                     ELSE pos)

\* the position after the number token that starts at pos
readNumber(text, pos) ==
  readFraction(text, skipWhile(text, IF At(text, pos) = "-" THEN pos + 1 ELSE pos,
                               Digits))

\* an error: the fixed part of the message and the values interpolated
\* into it, by name
Err(text, args) == [message |-> text, args |-> args]

\* no interpolated value
NoArgs == [none |-> TRUE]

\* the end of readKeyword: the token of the word, or the error
keyword(word, start, end) ==
  IF word = <<"t", "r", "u", "e">> \/ word = <<"f", "a", "l", "s", "e">>
  THEN [ok |-> TRUE, token |-> Token("boolean", start, end)]
  ELSE IF word = <<"n", "u", "l", "l">>
  THEN [ok |-> TRUE, token |-> Token("null", start, end)]
  ELSE [ok |-> FALSE, error |-> Err("Unexpected identifier", [word |-> word])]

\* readKeyword, once the run of letters that starts at pos has been read
keywordTo(text, pos, end) == keyword(slice(text, pos, end), pos, end)

\* the token of the word of letters that starts at pos, or the error
readKeyword(text, pos) ==
  keywordTo(text, pos, skipWhile(text, pos, LowerLetters \cup UpperLetters))

\* while (pos < length && text[pos] !== "\n") pos++
RECURSIVE skipLine(_, _)
skipLine(text, pos) ==
  IF pos < Len(text) /\ At(text, pos) # "\n"
  THEN skipLine(text, pos + 1)
  ELSE pos

\* while (pos < length && !(text[pos] === "*" && text[pos + 1] === "/")) pos++
RECURSIVE skipBlock(_, _)
skipBlock(text, pos) ==
  IF pos < Len(text) /\ ~(At(text, pos) = "*" /\ At(text, pos + 1) = "/")
  THEN skipBlock(text, pos + 1)
  ELSE pos

punctuation(ch) ==
  CASE ch = "{" -> "braceL"
    [] ch = "}" -> "braceR"
    [] ch = "[" -> "bracketL"
    [] ch = "]" -> "bracketR"
    [] ch = ":" -> "colon"
    [] ch = "," -> "comma"
    [] OTHER    -> Undefined

\* punctuationToken with the offset of the message read after this.pos++
punctuationTokenAfterIncrement(ch, pos, type) ==
  IF type = Undefined
  THEN [ok |-> FALSE, error |-> Err("Unexpected character", [ch |-> ch, at |-> pos + 1])]
  ELSE [ok |-> TRUE, token |-> Token(type, pos, pos + 1)]

\* the end of readPunctuationOrComment: the token of the character ch at
\* pos, whose entry in the map is type, or the error
punctuationToken(ch, pos, type) ==
  IF type = Undefined
  THEN [ok |-> FALSE, error |-> Err("Unexpected character", [ch |-> ch, at |-> pos])]
  ELSE [ok |-> TRUE, token |-> Token(type, pos, pos + 1)]

\* the comment or punctuation token that starts at pos, or the error
readPunctuationOrComment(text, pos) ==
  IF At(text, pos) = "/" /\ At(text, pos + 1) = "/"
  THEN [ok |-> TRUE, token |-> Token("comment", pos, skipLine(text, pos + 2))]
  ELSE IF At(text, pos) = "/" /\ At(text, pos + 1) = "*"
  THEN [ok |-> TRUE, token |-> Token("comment", pos, skipBlock(text, pos + 2) + 2)]
  ELSE punctuationToken(At(text, pos), pos, punctuation(At(text, pos)))

\* the token that starts at pos with the character ch, or the error
readToken(text, pos, ch) ==
  IF isWhitespace(ch)
  THEN [ok |-> TRUE, token |-> Token("whitespace", pos, readWhitespace(text, pos))]
  ELSE IF ch = "\""
  THEN [ok |-> TRUE, token |-> Token("string", pos, readString(text, pos))]
  ELSE IF isNumberStart(ch)
  THEN [ok |-> TRUE, token |-> Token("number", pos, readNumber(text, pos))]
  ELSE IF isAlpha(ch) THEN readKeyword(text, pos)
  ELSE readPunctuationOrComment(text, pos)

RECURSIVE tokenizeLoop(_, _, _)

\* the main loop of tokenize(), once the token at the current position
\* has been read
tokenizeNext(text, tokens, r) ==
  IF r.ok THEN tokenizeLoop(text, r.token.end, Append(tokens, r.token)) ELSE r

\* the main loop of tokenize()
tokenizeLoop(text, pos, tokens) ==
  IF pos < Len(text)
  THEN tokenizeNext(text, tokens, readToken(text, pos, At(text, pos)))
  ELSE [ok |-> TRUE, tokens |-> tokens]

\* new Tokenizer(text).tokenize(): the tokens, or the error thrown
tokenize(text) == tokenizeLoop(text, 0, << >>)

(***************************************************************************)
(* CSTBuilder.js                                                           *)
(***************************************************************************)
\* this.tokens[this.pos]
current(tokens, pos) ==
  IF pos < Len(tokens) THEN tokens[pos + 1]
  ELSE [type |-> Undefined, start |-> -1, end |-> -1]

RECURSIVE skipTrivia(_, _)
skipTrivia(tokens, pos) ==
  IF pos < Len(tokens) /\ tokens[pos + 1].type \in {"whitespace", "comment"}
  THEN skipTrivia(tokens, pos + 1)
  ELSE pos

\* the end of consume(type): token is the current one
consumeToken(token, pos, type) ==
  IF token.type # type
  THEN [ok |-> FALSE, error |-> Err("Expected", [expected |-> type, got |-> token.type])]
  ELSE [ok |-> TRUE, token |-> token, pos |-> pos + 1]

\* consume(type): the token read, or the error
consume(tokens, pos, type) == consumeToken(current(tokens, pos), pos, type)

\* a leaf node, or the key of a property
Leaf(type, token) == [type |-> type, start |-> token.start, end |-> token.end]

parsePrimitive(tokens, pos, type) ==
  [ok |-> TRUE, pos |-> pos + 1, node |-> Leaf(type, current(tokens, pos))]

\* after a member, once the trivia is skipped: an optional comma, skipTrivia
afterMemberAt(tokens, pos) ==
  IF current(tokens, pos).type = "comma" THEN skipTrivia(tokens, pos + 1) ELSE pos

\* after a member: skipTrivia, an optional comma, skipTrivia
afterMember(tokens, pos) == afterMemberAt(tokens, skipTrivia(tokens, pos))

RECURSIVE parseValue(_, _)
RECURSIVE parseObjectLoop(_, _, _)
RECURSIVE parseArrayLoop(_, _, _)

\* one property, once its value v is parsed
propertyValue(tokens, keyToken, v, properties) ==
  IF ~v.ok THEN v
  ELSE parseObjectLoop(tokens, afterMember(tokens, v.pos),
         Append(properties, [key |-> Leaf("String", keyToken), value |-> v.node]))

\* one property, once its colon c is consumed
propertyColon(tokens, keyToken, c, properties) ==
  IF ~c.ok THEN c
  ELSE propertyValue(tokens, keyToken, parseValue(tokens, skipTrivia(tokens, c.pos)),
                     properties)

\* one property, once its key k is consumed
propertyKey(tokens, k, properties) ==
  IF ~k.ok THEN k
  ELSE propertyColon(tokens, k.token,
                     consume(tokens, skipTrivia(tokens, k.pos), "colon"), properties)

\* the while loop of parseObject: the properties read and the position of
\* the token that ended the loop
parseObjectLoop(tokens, pos, properties) ==
  IF current(tokens, pos).type \notin {Undefined, "braceR"}
  THEN propertyKey(tokens, consume(tokens, pos, "string"), properties)
  ELSE [ok |-> TRUE, pos |-> pos, members |-> properties]

\* containerNode with the fault of taking the end of the node from the
\* opening token: the node spans its opening brace or bracket alone
containerNodeOpenSpan(type, startToken, members, e) ==
  IF ~e.ok THEN e
  ELSE IF type = "Object"
  THEN [ok |-> TRUE, pos |-> e.pos,
        node |-> [type |-> "Object", start |-> startToken.start,
                  end |-> startToken.end, properties |-> members]]
  ELSE [ok |-> TRUE, pos |-> e.pos,
        node |-> [type |-> "Array", start |-> startToken.start,
                  end |-> startToken.end, elements |-> members]]

\* the end of parseObject and parseArray: e is the closing token consumed
containerNode(type, startToken, members, e) ==
  IF ~e.ok THEN e
  ELSE IF type = "Object"
  THEN [ok |-> TRUE, pos |-> e.pos,
        node |-> [type |-> "Object", start |-> startToken.start,
                  end |-> e.token.end, properties |-> members]]
  ELSE [ok |-> TRUE, pos |-> e.pos,
        node |-> [type |-> "Array", start |-> startToken.start,
                  end |-> e.token.end, elements |-> members]]

\* parseObject and parseArray after the loop l: the closer is consumed
containerClose(tokens, type, closer, startToken, l) ==
  IF ~l.ok THEN l
  ELSE containerNode(type, startToken, l.members, consume(tokens, l.pos, closer))

parseObject(tokens, pos) ==
  containerClose(tokens, "Object", "braceR", current(tokens, pos),
                 parseObjectLoop(tokens, skipTrivia(tokens, pos + 1), << >>))

\* one element, once it is parsed
elementValue(tokens, v, elements) ==
  IF ~v.ok THEN v
  ELSE parseArrayLoop(tokens, afterMember(tokens, v.pos), Append(elements, v.node))

\* the while loop of parseArray
parseArrayLoop(tokens, pos, elements) ==
  IF current(tokens, pos).type \notin {Undefined, "bracketR"}
  THEN elementValue(tokens, parseValue(tokens, pos), elements)
  ELSE [ok |-> TRUE, pos |-> pos, members |-> elements]

parseArray(tokens, pos) ==
  containerClose(tokens, "Array", "bracketR", current(tokens, pos),
                 parseArrayLoop(tokens, skipTrivia(tokens, pos + 1), << >>))

\* the switch of parseValue on the type of the current token
parseValueOf(tokens, pos, type) ==
  CASE type = Undefined  -> [ok |-> FALSE, error |-> Err("Unexpected end of input", NoArgs)]
    [] type = "braceL"   -> parseObject(tokens, pos)
    [] type = "bracketL" -> parseArray(tokens, pos)
    [] type = "string"   -> parsePrimitive(tokens, pos, "String")
    [] type = "number"   -> parsePrimitive(tokens, pos, "Number")
    [] type = "boolean"  -> parsePrimitive(tokens, pos, "Boolean")
    [] type = "null"     -> parsePrimitive(tokens, pos, "Null")
    [] OTHER             -> [ok |-> FALSE, error |-> Err("Unexpected token", [got |-> type])]

\* parseValue, once the trivia is skipped
parseValueAt(tokens, pos) == parseValueOf(tokens, pos, current(tokens, pos).type)

parseValue(tokens, pos) == parseValueAt(tokens, skipTrivia(tokens, pos))

\* the end of build(): the root node, or the error
buildResult(r) == IF r.ok THEN [ok |-> TRUE, root |-> r.node] ELSE r

\* new CSTBuilder(tokens).build(): the root node, or the error thrown
build(tokens) == buildResult(parseValue(tokens, skipTrivia(tokens, 0)))

\* build() on what tokenize() gave
buildTokens(t) == IF t.ok THEN build(t.tokens) ELSE t

\* the first lines of replace, insert and batch: tokenize, then build
parse(sourceText) == buildTokens(tokenize(sourceText))

(***************************************************************************)
(* helper.js                                                               *)
(***************************************************************************)
\* the characters "\b" and "\f", which the escapes \b and \f decode to
Backspace == "BS"

FormFeed == "\f"

\* the characters that the `.` of a regular expression does not match
LineTerminators == {"\n", "\r"}

\* the switch of unescapeString: what the escape \ch is replaced by
unescapeChar(ch) ==
  CASE ch = "b" -> Backspace
    [] ch = "f" -> FormFeed
    [] ch = "n" -> "\n"
    [] ch = "r" -> "\r"
    [] ch = "t" -> "\t"
    [] OTHER    -> ch

\* str.replace(/\\(.)/g, ...): every backslash followed by a character
\* other than a line terminator is replaced, from left to right
RECURSIVE unescapeString(_)
unescapeString(str) ==
  IF str = << >> THEN << >>
  ELSE IF str[1] = "\\" /\ Len(str) >= 2 /\ str[2] \notin LineTerminators
  THEN <<unescapeChar(str[2])>> \o unescapeString(SubSeq(str, 3, Len(str)))
  ELSE <<str[1]>> \o unescapeString(Tail(str))

extractString(stringNode, sourceText) ==
  unescapeString(slice(sourceText, stringNode.start + 1, stringNode.end - 1))

(***************************************************************************)
(* PathResolver.js                                                         *)
(*                                                                         *)
(* A step of a parsed path is a string or a number:                        *)
(*   [t |-> "string", s |-> the characters]                                *)
(*   [t |-> "number", n |-> the value, index |-> whether the value is an   *)
(*    integer, so that elements[n] can name an element]                    *)
(***************************************************************************)
StringStep(s) == [t |-> "string", s |-> s]

NumberStep(n) == [t |-> "number", n |-> n, index |-> TRUE]

\* a number that is no array index: NaN or a fraction
NaNStep == [t |-> "number", n |-> 0, index |-> FALSE]

RECURSIVE digitsValue(_, _)
digitsValue(str, acc) ==
  IF str = << >> THEN acc
  ELSE digitsValue(Tail(str),
         acc * 10 + (CHOOSE d \in 0..9 : <<"0", "1", "2", "3", "4", "5", "6", "7", "8", "9">>[d + 1] = str[1]))

allDigits(str) == \A i \in 1..Len(str) : str[i] \in Digits

\* the position of the first character at or after i that is `stop`, or
\* the length of the text
RECURSIVE indexOfFrom(_, _, _)
indexOfFrom(text, i, stop) ==
  IF i < Len(text) /\ At(text, i) # stop THEN indexOfFrom(text, i + 1, stop) ELSE i

\* the number written as the digits int, a dot and the digits frac
decimal(int, frac, negative) ==
  IF ~allDigits(int) \/ ~allDigits(frac) \/ (int = << >> /\ frac = << >>)
  THEN NaNStep
  ELSE IF \E i \in 1..Len(frac) : frac[i] # "0" THEN NaNStep
  ELSE NumberStep(IF negative THEN 0 - digitsValue(int, 0) ELSE digitsValue(int, 0))

\* the number written as body, which has its first dot at position dot
unsigned(body, dot, negative) ==
  decimal(slice(body, 0, dot), sliceFrom(body, dot + 1), negative)

\* Number(str) for the strings a path of the model can hold: the empty
\* string is 0, an optional sign and digits with an optional fraction is
\* that number, anything else is NaN.  (Exponents, hexadecimal, binary
\* and octal literals, Infinity and surrounding whitespace are not in the
\* path alphabet of the model.)
Number(str) ==
  IF str = << >> THEN NumberStep(0)
  ELSE IF str[1] \in {"+", "-"}
  THEN unsigned(Tail(str), indexOfFrom(Tail(str), 0, "."), str[1] = "-")
  ELSE unsigned(str, indexOfFrom(str, 0, "."), FALSE)

\* /[a-zA-Z0-9_$]/
IdentifierChars == LowerLetters \cup UpperLetters \cup Digits \cup {"_", "$"}

RECURSIVE parseDotPathLoop(_, _, _)

\* the branch `[`: close is the position of the `]` (or the end)
bracketStep(path, i, close, result) ==
  parseDotPathLoop(path, close + 1, Append(result, Number(slice(path, i + 1, close))))

\* the branch of an identifier: stop is where its characters end.  When
\* the character at i is no identifier character, an empty name is pushed
\* and i stays where it is: the loop never ends.
identifierStep(path, i, stop, result) ==
  IF stop = i THEN [ok |-> FALSE, hang |-> TRUE]
  ELSE parseDotPathLoop(path, stop, Append(result, StringStep(slice(path, i, stop))))

\* the while loop of parseDotPath
parseDotPathLoop(path, i, result) ==
  IF i < Len(path)
  THEN IF At(path, i) = "." THEN parseDotPathLoop(path, i + 1, result)
       ELSE IF At(path, i) = "["
       THEN bracketStep(path, i, indexOfFrom(path, i + 1, "]"), result)
       ELSE identifierStep(path, i, skipWhile(path, i, IdentifierChars), result)
  ELSE [ok |-> TRUE, parts |-> result]

parseDotPath(path) == parseDotPathLoop(path, 0, << >>)

\* str.split(sep), once the first separator is found at cut
RECURSIVE split(_, _)
splitAt(str, sep, cut) ==
  IF cut >= Len(str) THEN <<str>>
  ELSE <<slice(str, 0, cut)>> \o split(sliceFrom(str, cut + 1), sep)

\* str.split("/")
split(str, sep) == splitAt(str, sep, indexOfFrom(str, 0, sep))

\* str.replace(/~c/g, to): every occurrence of ~c, from left to right
RECURSIVE replaceTilde(_, _, _)
replaceTilde(str, c, to) ==
  IF str = << >> THEN << >>
  ELSE IF Len(str) >= 2 /\ str[1] = "~" /\ str[2] = c
  THEN <<to>> \o replaceTilde(SubSeq(str, 3, Len(str)), c, to)
  ELSE <<str[1]>> \o replaceTilde(Tail(str), c, to)

\* /^\d+$/.test(seg) ? Number(seg) : seg
segmentStep(seg) ==
  IF seg # << >> /\ allDigits(seg) THEN NumberStep(digitsValue(seg, 0))
  ELSE StringStep(seg)

\* pointerSegment with the fault of decoding ~0 before ~1: ~01 becomes ~1
\* and then /
pointerSegmentTildeFirst(segment) ==
  segmentStep(replaceTilde(replaceTilde(segment, "0", "~"), "1", "/"))

\* one segment of a JSON Pointer: ~1 is decoded, then ~0, then a segment
\* of digits becomes a number
pointerSegment(segment) ==
  segmentStep(replaceTilde(replaceTilde(segment, "1", "/"), "0", "~"))

pointerSegments(segments) ==
  [ok |-> TRUE, parts |-> [i \in 1..Len(segments) |-> pointerSegment(segments[i])]]

\* parseJSONPointer with the fault of reading the pointer / as the
\* pointer to the whole document, which is the empty pointer
parseJSONPointerSlashIsRoot(pointer) ==
  IF pointer = << >> \/ pointer = <<"/">> THEN [ok |-> TRUE, parts |-> << >>]
  ELSE IF pointer[1] # "/"
  THEN [ok |-> FALSE, hang |-> FALSE, error |-> Err("Invalid JSON Pointer", NoArgs)]
  ELSE pointerSegments(split(sliceFrom(pointer, 1), "/"))

parseJSONPointer(pointer) ==
  IF pointer = << >> THEN [ok |-> TRUE, parts |-> << >>]
  ELSE IF pointer[1] # "/"
  THEN [ok |-> FALSE, hang |-> FALSE, error |-> Err("Invalid JSON Pointer", NoArgs)]
  ELSE pointerSegments(split(sliceFrom(pointer, 1), "/"))

parsePath(path) ==
  IF At(path, 0) = "/" THEN parseJSONPointer(path) ELSE parseDotPath(path)

\* the for loop of resolveObjectProperty, from property i on
RECURSIVE findProperty(_, _, _, _)
findProperty(properties, i, key, sourceText) ==
  IF i > Len(properties) THEN Null
  ELSE IF extractString(properties[i].key, sourceText) = key THEN properties[i].value
  ELSE findProperty(properties, i + 1, key, sourceText)

\* resolveObjectProperty with the fault of a loop that does not stop at
\* the first property with the key: the last one is returned
resolveObjectPropertyLast(objectNode, key, sourceText) ==
  IF key.t # "string" THEN Null
  ELSE IF \A i \in 1..Len(objectNode.properties) :
            extractString(objectNode.properties[i].key, sourceText) # key.s
  THEN Null
  ELSE objectNode.properties[
         CHOOSE i \in 1..Len(objectNode.properties) :
           /\ extractString(objectNode.properties[i].key, sourceText) = key.s
           /\ \A j \in (i + 1)..Len(objectNode.properties) :
                extractString(objectNode.properties[j].key, sourceText) # key.s].value

resolveObjectProperty(objectNode, key, sourceText) ==
  IF key.t # "string" THEN Null
  ELSE findProperty(objectNode.properties, 1, key.s, sourceText)

\* resolveArrayElement without the typeof test: elements["0"] is
\* elements[0]
resolveArrayElementAnyType(arrayNode, index) ==
  IF index.t = "string"
  THEN IF index.s # << >> /\ allDigits(index.s)
          /\ digitsValue(index.s, 0) < Len(arrayNode.elements)
       THEN arrayNode.elements[digitsValue(index.s, 0) + 1]
       ELSE Null
  ELSE IF index.index /\ 0 <= index.n /\ index.n < Len(arrayNode.elements)
  THEN arrayNode.elements[index.n + 1]
  ELSE Null

resolveArrayElement(arrayNode, index) ==
  IF index.t # "number" THEN Null
  ELSE IF index.index /\ 0 <= index.n /\ index.n < Len(arrayNode.elements)
  THEN arrayNode.elements[index.n + 1]
  ELSE Null

\* the for loop of resolvePath
RECURSIVE resolveParts(_, _, _)
resolveParts(node, parts, sourceText) ==
  IF parts = << >> THEN node
  ELSE IF node = Null THEN Null
  ELSE IF node.type = "Object"
  THEN resolveParts(resolveObjectProperty(node, Head(parts), sourceText),
                    Tail(parts), sourceText)
  ELSE IF node.type = "Array"
  THEN resolveParts(resolveArrayElement(node, Head(parts)), Tail(parts), sourceText)
  ELSE Null

\* resolvePath(root, path, sourceText) for a path that parses: the node,
\* or Null
resolvePath(root, path, sourceText) ==
  resolveParts(root, parsePath(path).parts, sourceText)

(***************************************************************************)
(* The outcome of a call: it returned a text, it threw an error, or it     *)
(* never came back (the loop of parseDotPath did not end).                 *)
(***************************************************************************)
NoError == Err("", NoArgs)

Returned(text, root) ==
  [status |-> "returned", text |-> text, error |-> NoError, root |-> root]

Threw(error, root) ==
  [status |-> "threw", text |-> << >>, error |-> error, root |-> root]

Hang(root) == [status |-> "hang", text |-> << >>, error |-> NoError, root |-> root]

\* `${x}` of a property that the object does not have
UndefinedText == <<"u", "n", "d", "e", "f", "i", "n", "e", "d">>

\* some patch of the list has a path on which parsePath does not return
somePathHangs(patches) ==
  \E i \in 1..Len(patches) : ~parsePath(patches[i].path).ok

(***************************************************************************)
(* function/replace.js                                                     *)
(***************************************************************************)
\* patches.map(patch => ({node: resolvePath(root, patch.path, sourceText), patch}))
resolvePatches(root, patches, sourceText) ==
  [i \in 1..Len(patches) |->
     [node |-> resolvePath(root, patches[i].path, sourceText), patch |-> patches[i]]]

\* .filter(v => v.node)
RECURSIVE filterFound(_)
filterFound(entries) ==
  IF entries = << >> THEN << >>
  ELSE IF Head(entries).node = Null THEN filterFound(Tail(entries))
  ELSE <<Head(entries)>> \o filterFound(Tail(entries))

\* the place of entry v in a list sorted by descending node.start: after
\* every entry that does not start before it (the sort is stable)
RECURSIVE insertSorted(_, _)
insertSorted(sorted, v) ==
  IF sorted = << >> THEN <<v>>
  ELSE IF Head(sorted).node.start >= v.node.start
  THEN <<Head(sorted)>> \o insertSorted(Tail(sorted), v)
  ELSE <<v>> \o sorted

\* sortByStartDesc with the fault of leaving the entries in input order
sortByStartDescUnsorted(entries) == entries

\* .sort((a, b) => b.node.start - a.node.start)
RECURSIVE sortByStartDesc(_)
sortByStartDesc(entries) ==
  IF entries = << >> THEN << >>
  ELSE insertSorted(sortByStartDesc(SubSeq(entries, 1, Len(entries) - 1)),
                    entries[Len(entries)])

reverseNodesOf(root, patches, sourceText) ==
  sortByStartDesc(filterFound(resolvePatches(root, patches, sourceText)))

\* conflictFrom with the fault of comparing the start of the node, where
\* the code compares its end: in a list sorted by descending start no
\* entry is ever found
RECURSIVE conflictFromStarts(_, _)
conflictFromStarts(reverseNodes, i) ==
  IF i > Len(reverseNodes) THEN 0
  ELSE IF i > 1 /\ reverseNodes[i].node.start > reverseNodes[i - 1].node.start
  THEN i
  ELSE conflictFromStarts(reverseNodes, i + 1)

\* the reduce of replace: the first entry, from index i on, whose node
\* ends after the start of the entry before it (0 when there is none);
\* the accumulator starts at Infinity, so the first entry never conflicts
RECURSIVE conflictFrom(_, _)
conflictFrom(reverseNodes, i) ==
  IF i > Len(reverseNodes) THEN 0
  ELSE IF i > 1 /\ reverseNodes[i].node.end > reverseNodes[i - 1].node.start
  THEN i
  ELSE conflictFrom(reverseNodes, i + 1)

\* the error thrown by the reduce: `${node.path}`, and a node of the tree
\* has no property `path`
conflictError(node) == Err("Patch conflict at path", [path |-> UndefinedText])

\* replaceSplice with the fault of overwriting in place: the text resumes
\* after as many characters as the value has, not at the end of the node
replaceSpliceByValueLength(result, entry) ==
  slice(result, 0, entry.node.start) \o entry.patch.value
    \o sliceFrom(result, entry.node.start + Len(entry.patch.value))

\* replaceSplice with the fault of leaving out the text before the node
replaceSpliceWithoutPrefix(result, entry) ==
  entry.patch.value \o sliceFrom(result, entry.node.end)

\* one iteration of the splice loop
replaceSplice(result, entry) ==
  slice(result, 0, entry.node.start) \o entry.patch.value
    \o sliceFrom(result, entry.node.end)

RECURSIVE replaceLoop(_, _)
replaceLoop(result, reverseNodes) ==
  IF reverseNodes = << >> THEN result
  ELSE replaceLoop(replaceSplice(result, Head(reverseNodes)), Tail(reverseNodes))

\* the end of the reduce: c is the index of the conflicting entry, or 0
checked(sourceText, root, reverseNodes, c) ==
  IF c # 0
  THEN [outcome |-> Threw(conflictError(reverseNodes[c].node), root),
        reverseNodes |-> << >>]
  ELSE [outcome |-> Returned(sourceText, root), reverseNodes |-> reverseNodes]

\* checkConflicts with the fault of a reduce without its initial value,
\* which throws on an empty list
checkConflictsNoSeed(sourceText, root, reverseNodes) ==
  IF reverseNodes = << >>
  THEN [outcome |-> Threw(Err("Reduce of empty array with no initial value", NoArgs),
                          root),
        reverseNodes |-> << >>]
  ELSE checked(sourceText, root, reverseNodes, conflictFrom(reverseNodes, 1))

\* the sorted entries are checked for conflicts
checkConflicts(sourceText, root, reverseNodes) ==
  checked(sourceText, root, reverseNodes, conflictFrom(reverseNodes, 1))

\* replace, once the text is tokenized and parsed (p)
replaceParsed(sourceText, patches, p) ==
  IF ~p.ok THEN [outcome |-> Threw(p.error, Null), reverseNodes |-> << >>]
  ELSE IF somePathHangs(patches)
  THEN [outcome |-> Hang(p.root), reverseNodes |-> << >>]
  ELSE checkConflicts(sourceText, p.root, reverseNodesOf(p.root, patches, sourceText))

\* replace(sourceText, patches), up to the splice loop: how the call ends
\* if it ends there, and otherwise the entries to splice
replacePlan(sourceText, patches) == replaceParsed(sourceText, patches, parse(sourceText))

\* the splice loop and the return
replaceApply(sourceText, plan) ==
  IF plan.outcome.status # "returned" THEN plan.outcome
  ELSE Returned(replaceLoop(sourceText, plan.reverseNodes), plan.outcome.root)

\* replace(sourceText, patches) as one call
replace(sourceText, patches) == replaceApply(sourceText, replacePlan(sourceText, patches))

(***************************************************************************)
(* function/insert.js                                                      *)
(***************************************************************************)
has(patch, field) == field \in DOMAIN patch

\* insertObjectProperty with the fault of writing the new property at the
\* head of the object, before the properties it has
insertObjectPropertyFirst(sourceText, objectNode, patch, originalSource) ==
  IF ~has(patch, "key") \/ patch.key = << >>
  THEN [ok |-> FALSE,
        error |-> Err("Insert into object requires 'key' property", NoArgs)]
  ELSE IF \E i \in 1..Len(objectNode.properties) :
            extractString(objectNode.properties[i].key, originalSource) = patch.key
  THEN [ok |-> FALSE,
        error |-> Err("Key already exists in object", [key |-> patch.key])]
  ELSE [ok |-> TRUE,
        text |-> slice(sourceText, 0, objectNode.start + 1)
                   \o <<"\"">> \o patch.key \o <<"\"", ":", " ">> \o patch.value
                   \o (IF Len(objectNode.properties) = 0 THEN << >> ELSE <<",", " ">>)
                   \o sliceFrom(sourceText, objectNode.start + 1)]

\* insertObjectProperty with the fault of comparing the keys as they are
\* written in the text, escapes included, and not as extractString reads them
insertObjectPropertyRawKeys(sourceText, objectNode, patch, originalSource) ==
  LET properties == objectNode.properties
      newEntry   == <<"\"">> \o patch.key \o <<"\"", ":", " ">> \o patch.value
  IN  IF ~has(patch, "key") \/ patch.key = << >>
      THEN [ok |-> FALSE,
            error |-> Err("Insert into object requires 'key' property", NoArgs)]
      ELSE IF \E i \in 1..Len(properties) :
                slice(originalSource, properties[i].key.start + 1,
                      properties[i].key.end - 1) = patch.key
      THEN [ok |-> FALSE,
            error |-> Err("Key already exists in object", [key |-> patch.key])]
      ELSE IF Len(properties) = 0
      THEN [ok |-> TRUE,
            text |-> slice(sourceText, 0, objectNode.start + 1) \o newEntry
                       \o sliceFrom(sourceText, objectNode.start + 1)]
      ELSE [ok |-> TRUE,
            text |-> slice(sourceText, 0, properties[Len(properties)].value.end)
                       \o <<",", " ">> \o newEntry
                       \o sliceFrom(sourceText, properties[Len(properties)].value.end)]

insertObjectProperty(sourceText, objectNode, patch, originalSource) ==
  LET properties == objectNode.properties
      newEntry   == <<"\"">> \o patch.key \o <<"\"", ":", " ">> \o patch.value
  IN  IF ~has(patch, "key") \/ patch.key = << >>
      THEN [ok |-> FALSE,
            error |-> Err("Insert into object requires 'key' property", NoArgs)]
      ELSE IF \E i \in 1..Len(properties) :
                extractString(properties[i].key, originalSource) = patch.key
      THEN [ok |-> FALSE,
            error |-> Err("Key already exists in object", [key |-> patch.key])]
      ELSE IF Len(properties) = 0
      THEN LET insertPos == objectNode.start + 1
           IN  [ok |-> TRUE,
                text |-> slice(sourceText, 0, insertPos) \o newEntry
                           \o sliceFrom(sourceText, insertPos)]
      ELSE LET insertPos == properties[Len(properties)].value.end
           IN  [ok |-> TRUE,
                text |-> slice(sourceText, 0, insertPos) \o <<",", " ">> \o newEntry
                           \o sliceFrom(sourceText, insertPos)]

\* insertArrayElement with the fault of an index that is off by one: a
\* value for the middle of the array is put before the element that
\* precedes its position
insertArrayElementOneEarly(sourceText, arrayNode, patch, originalSource) ==
  LET elements == arrayNode.elements
      position == IF has(patch, "position") THEN patch.position ELSE Len(elements)
  IN  IF position < 0 \/ position > Len(elements)
      THEN [ok |-> FALSE,
            error |-> Err("Invalid position",
                          [position |-> position, length |-> Len(elements)])]
      ELSE IF Len(elements) = 0
      THEN [ok |-> TRUE,
            text |-> slice(sourceText, 0, arrayNode.start + 1) \o patch.value
                       \o sliceFrom(sourceText, arrayNode.start + 1)]
      ELSE IF position = 0
      THEN [ok |-> TRUE,
            text |-> slice(sourceText, 0, elements[1].start) \o patch.value
                       \o <<",", " ">> \o sliceFrom(sourceText, elements[1].start)]
      ELSE IF position >= Len(elements)
      THEN [ok |-> TRUE,
            text |-> slice(sourceText, 0, elements[Len(elements)].end)
                       \o <<",", " ">> \o patch.value
                       \o sliceFrom(sourceText, elements[Len(elements)].end)]
      ELSE [ok |-> TRUE,
            text |-> slice(sourceText, 0, elements[position].start) \o patch.value
                       \o <<",", " ">> \o sliceFrom(sourceText, elements[position].start)]

\* insertArrayElement with the fault of a check that is off by one:
\* the position that appends, the length of the array, is rejected
insertArrayElementStrictEnd(sourceText, arrayNode, patch, originalSource) ==
  IF (IF has(patch, "position") THEN patch.position ELSE Len(arrayNode.elements)) < 0
     \/ (IF has(patch, "position") THEN patch.position ELSE Len(arrayNode.elements))
          >= Len(arrayNode.elements)
  THEN [ok |-> FALSE,
        error |-> Err("Invalid position",
                      [position |-> IF has(patch, "position") THEN patch.position
                                    ELSE Len(arrayNode.elements),
                       length |-> Len(arrayNode.elements)])]
  ELSE IF patch.position = 0
  THEN [ok |-> TRUE,
        text |-> slice(sourceText, 0, arrayNode.elements[1].start) \o patch.value
                   \o <<",", " ">> \o sliceFrom(sourceText, arrayNode.elements[1].start)]
  ELSE [ok |-> TRUE,
        text |-> slice(sourceText, 0, arrayNode.elements[patch.position + 1].start)
                   \o patch.value \o <<",", " ">>
                   \o sliceFrom(sourceText, arrayNode.elements[patch.position + 1].start)]

insertArrayElement(sourceText, arrayNode, patch, originalSource) ==
  LET elements == arrayNode.elements
      position == IF has(patch, "position") THEN patch.position ELSE Len(elements)
  IN  IF position < 0 \/ position > Len(elements)
      THEN [ok |-> FALSE,
            error |-> Err("Invalid position",
                          [position |-> position, length |-> Len(elements)])]
      ELSE IF Len(elements) = 0
      THEN LET insertPos == arrayNode.start + 1
           IN  [ok |-> TRUE,
                text |-> slice(sourceText, 0, insertPos) \o patch.value
                           \o sliceFrom(sourceText, insertPos)]
      ELSE IF position = 0
      THEN LET insertPos == elements[1].start
           IN  [ok |-> TRUE,
                text |-> slice(sourceText, 0, insertPos) \o patch.value \o <<",", " ">>
                           \o sliceFrom(sourceText, insertPos)]
      ELSE IF position >= Len(elements)
      THEN LET insertPos == elements[Len(elements)].end
           IN  [ok |-> TRUE,
                text |-> slice(sourceText, 0, insertPos) \o <<",", " ">> \o patch.value
                           \o sliceFrom(sourceText, insertPos)]
      ELSE LET insertPos == elements[position + 1].start
           IN  [ok |-> TRUE,
                text |-> slice(sourceText, 0, insertPos) \o patch.value \o <<",", " ">>
                           \o sliceFrom(sourceText, insertPos)]

\* insertIntoNode with the fault of writing the value after a node that is
\* neither an object nor an array, where the code returns the text as it is
insertIntoNodeAfterLeaf(sourceText, node, patch, originalSource) ==
  IF node.type = "Object"
  THEN insertObjectProperty(sourceText, node, patch, originalSource)
  ELSE IF node.type = "Array"
  THEN insertArrayElement(sourceText, node, patch, originalSource)
  ELSE [ok |-> TRUE,
        text |-> slice(sourceText, 0, node.end) \o patch.value
                   \o sliceFrom(sourceText, node.end)]

insertIntoNode(sourceText, node, patch, originalSource) ==
  IF node.type = "Object"
  THEN insertObjectProperty(sourceText, node, patch, originalSource)
  ELSE IF node.type = "Array"
  THEN insertArrayElement(sourceText, node, patch, originalSource)
  ELSE [ok |-> TRUE, text |-> sourceText]

RECURSIVE insertLoop(_, _, _)

\* the for loop of insert, once insertIntoNode has returned or thrown (r)
insertNext(r, reverseNodes, sourceText) ==
  IF r.ok THEN insertLoop(r.text, Tail(reverseNodes), sourceText) ELSE r

\* the for loop of insert: the text after the last entry, or the error of
\* the first entry that throws
insertLoop(result, reverseNodes, sourceText) ==
  IF reverseNodes = << >> THEN [ok |-> TRUE, text |-> result]
  ELSE insertNext(insertIntoNode(result, Head(reverseNodes).node,
                                 Head(reverseNodes).patch, sourceText),
                  reverseNodes, sourceText)

\* insert, once the text is tokenized and parsed (p)
insertParsed(sourceText, patches, p) ==
  IF ~p.ok THEN [outcome |-> Threw(p.error, Null), reverseNodes |-> << >>]
  ELSE IF somePathHangs(patches)
  THEN [outcome |-> Hang(p.root), reverseNodes |-> << >>]
  ELSE [outcome |-> Returned(sourceText, p.root),
        reverseNodes |-> reverseNodesOf(p.root, patches, sourceText)]

\* insert(sourceText, patches), up to the loop
insertPlan(sourceText, patches) == insertParsed(sourceText, patches, parse(sourceText))

\* the end of insert: r is what the loop gave
insertResult(r, root) == IF r.ok THEN Returned(r.text, root) ELSE Threw(r.error, root)

\* the loop and the return
insertApply(sourceText, plan) ==
  IF plan.outcome.status # "returned" THEN plan.outcome
  ELSE insertResult(insertLoop(sourceText, plan.reverseNodes, sourceText),
                    plan.outcome.root)

\* insert(sourceText, patches) as one call
insert(sourceText, patches) == insertApply(sourceText, insertPlan(sourceText, patches))

(***************************************************************************)
(* function/delete.js is not among the sources: remove is modelled from    *)
(* the specification (section 4.4, Delete).                                *)
(***************************************************************************)
\* the values of the members of a node
memberValues(node) ==
  IF node.type = "Object"
  THEN [i \in 1..Len(node.properties) |-> node.properties[i].value]
  ELSE IF node.type = "Array" THEN node.elements
  ELSE << >>

\* where the members of a node start: a property starts at its key
memberStarts(node) ==
  IF node.type = "Object"
  THEN [i \in 1..Len(node.properties) |-> node.properties[i].key.start]
  ELSE IF node.type = "Array"
  THEN [i \in 1..Len(node.elements) |-> node.elements[i].start]
  ELSE << >>

\* the first member of values, from i on, whose span holds the target (0
\* when there is none)
RECURSIVE holder(_, _, _)
holder(values, i, target) ==
  IF i > Len(values) THEN 0
  ELSE IF values[i].start <= target.start /\ target.end <= values[i].end THEN i
  ELSE holder(values, i + 1, target)

RECURSIVE memberOf(_, _)

\* memberOf, once the member i whose span holds the target is found
memberAt(values, starts, i, target) ==
  IF i = 0 THEN [found |-> FALSE, start |-> target.start, prevEnd |-> -1, last |-> TRUE]
  ELSE IF values[i] = target
  THEN [found |-> TRUE, start |-> starts[i],
        prevEnd |-> IF i = 1 THEN -1 ELSE values[i - 1].end,
        last |-> i = Len(values)]
  ELSE memberOf(values[i], target)

\* the member (property or element) of the tree whose value is the target
\* node: its start, the end of the member before it (-1 for the first)
\* and whether it is the last member of its container
memberOf(node, target) ==
  memberAt(memberValues(node), memberStarts(node),
           holder(memberValues(node), 1, target), target)

\* the first token from i on that starts at or after pos and is no
\* trivia (0 when there is none)
RECURSIVE nextSignificant(_, _, _)
nextSignificant(tokens, i, pos) ==
  IF i > Len(tokens) THEN 0
  ELSE IF tokens[i].start >= pos /\ tokens[i].type \notin {"whitespace", "comment"} THEN i
  ELSE nextSignificant(tokens, i + 1, pos)

\* the last comma token, from i down, that lies between from and to (0
\* when there is none)
RECURSIVE lastComma(_, _, _, _)
lastComma(tokens, i, from, to) ==
  IF i < 1 THEN 0
  ELSE IF tokens[i].type = "comma" /\ tokens[i].start >= from /\ tokens[i].end <= to THEN i
  ELSE lastComma(tokens, i - 1, from, to)

\* the span deleted for the member m: next is the first significant token
\* after it, before the last comma between the member before it and m
memberSpan(tokens, target, m, next, before) ==
  IF ~m.found THEN [start |-> target.start, end |-> target.end]
  ELSE IF ~m.last /\ next # 0 /\ tokens[next].type = "comma"
  THEN [start |-> m.start,
        end |-> IF next < Len(tokens) /\ tokens[next + 1].type = "whitespace"
                THEN tokens[next + 1].end
                ELSE tokens[next].end]
  ELSE IF m.last /\ m.prevEnd >= 0 /\ before # 0
  THEN [start |-> tokens[before].start, end |-> target.end]
  ELSE [start |-> m.start, end |-> target.end]

\* the commas around the member m
memberCommas(tokens, target, m) ==
  memberSpan(tokens, target, m, nextSignificant(tokens, 1, target.end),
             lastComma(tokens, Len(tokens), m.prevEnd, m.start))

\* the span of text that deleting the target node removes: the member and
\* one adjacent comma (the trailing one with the whitespace run after it,
\* or the preceding one when the member is the last of its container)
deleteSpan(root, tokens, target) == memberCommas(tokens, target, memberOf(root, target))

\* the text without the span
cut(result, span) == slice(result, 0, span.start) \o sliceFrom(result, span.end)

RECURSIVE removeLoop(_, _, _, _)
removeLoop(result, reverseNodes, root, tokens) ==
  IF reverseNodes = << >> THEN result
  ELSE removeLoop(cut(result, deleteSpan(root, tokens, Head(reverseNodes).node)),
                  Tail(reverseNodes), root, tokens)

\* the tokens of a text that tokenizes
tokensOf(t) == IF t.ok THEN t.tokens ELSE << >>

\* remove, once the conflict check is made
removeChecked(sourceText, plan) ==
  IF plan.outcome.status # "returned" THEN plan.outcome
  ELSE Returned(removeLoop(sourceText, plan.reverseNodes, plan.outcome.root,
                           tokensOf(tokenize(sourceText))),
                plan.outcome.root)

\* the tree remove works on: the one passed by the caller when there is
\* one, otherwise the text is tokenized and parsed
removeTree(sourceText, root) ==
  IF root = Null THEN parse(sourceText) ELSE [ok |-> TRUE, root |-> root]

\* remove(sourceText, patches, root): resolve, sort, check as replace
\* does, then delete from the last target to the first
remove(sourceText, patches, root) ==
  removeChecked(sourceText,
                replaceParsed(sourceText, patches, removeTree(sourceText, root)))

(***************************************************************************)
(* function/batch.js                                                       *)
(***************************************************************************)
\* the categorized patches
Categories(replacePatches, deletePatches, insertPatches) ==
  [replace |-> replacePatches, delete |-> deletePatches, insert |-> insertPatches]

\* categorize with the fault of a switch without its default branch: an
\* operation that is none of the four is passed over
RECURSIVE categorizeSkipsUnknown(_, _)
categorizeSkipsUnknown(patches, cats) ==
  IF patches = << >> THEN [ok |-> TRUE, cats |-> cats]
  ELSE LET p == Head(patches)
       IN  IF ~has(p, "operation") \/ p.operation = ""
           THEN [ok |-> FALSE,
                 error |-> Err("Operation type is required", [path |-> p.path])]
           ELSE IF p.operation = "replace"
           THEN IF ~has(p, "value")
                THEN [ok |-> FALSE,
                      error |-> Err("Replace operation requires 'value' property",
                                    [path |-> p.path])]
                ELSE categorizeSkipsUnknown(Tail(patches),
                       [cats EXCEPT !.replace =
                          Append(@, [path |-> p.path, value |-> p.value])])
           ELSE IF p.operation \in {"delete", "remove"}
           THEN categorizeSkipsUnknown(Tail(patches),
                  [cats EXCEPT !.delete = Append(@, [path |-> p.path])])
           ELSE IF p.operation = "insert"
           THEN IF ~has(p, "value")
                THEN [ok |-> FALSE,
                      error |-> Err("Insert operation requires 'value' property",
                                    [path |-> p.path])]
                ELSE categorizeSkipsUnknown(Tail(patches),
                       [cats EXCEPT !.insert = Append(@, p)])
           ELSE categorizeSkipsUnknown(Tail(patches), cats)

\* the for loop that categorizes the patches: the three lists, or the
\* error of the first entry that is not accepted
RECURSIVE categorize(_, _)
categorize(patches, cats) ==
  IF patches = << >> THEN [ok |-> TRUE, cats |-> cats]
  ELSE LET p == Head(patches)
       IN  IF ~has(p, "operation") \/ p.operation = ""
           THEN [ok |-> FALSE,
                 error |-> Err("Operation type is required", [path |-> p.path])]
           ELSE IF p.operation = "replace"
           THEN IF ~has(p, "value")
                THEN [ok |-> FALSE,
                      error |-> Err("Replace operation requires 'value' property",
                                    [path |-> p.path])]
                ELSE categorize(Tail(patches),
                       [cats EXCEPT !.replace =
                          Append(@, [path |-> p.path, value |-> p.value])])
           ELSE IF p.operation \in {"delete", "remove"}
           THEN categorize(Tail(patches),
                  [cats EXCEPT !.delete = Append(@, [path |-> p.path])])
           ELSE IF p.operation = "insert"
           THEN IF ~has(p, "value")
                THEN [ok |-> FALSE,
                      error |-> Err("Insert operation requires 'value' property",
                                    [path |-> p.path])]
                ELSE categorize(Tail(patches), [cats EXCEPT !.insert = Append(@, p)])
           ELSE [ok |-> FALSE,
                 error |-> Err("Invalid operation type",
                               [operation |-> p.operation, path |-> p.path])]

\* batchOrder with the fault of deleting before replacing and inserting
batchOrderDeleteFirst == <<"delete", "replace", "insert">>

\* the order of the three blocks that apply the categories
batchOrder == <<"replace", "insert", "delete">>

\* deleteRoot with the fault of handing on the tree of the source text
\* whatever ran before
deleteRootStale(cats, root) == root

\* the tree that batch hands to remove: null when a replacement or an
\* insertion ran before it
deleteRoot(cats, root) ==
  IF Len(cats.replace) > 0 \/ Len(cats.insert) > 0 THEN Null ELSE root

\* batch, once the text is parsed (p) and the patches are categorized (c)
batchParsed(sourceText, p, c) ==
  IF ~p.ok THEN [outcome |-> Threw(p.error, Null), cats |-> Categories(<< >>, << >>, << >>)]
  ELSE IF ~c.ok THEN [outcome |-> Threw(c.error, p.root),
                      cats |-> Categories(<< >>, << >>, << >>)]
  ELSE [outcome |-> Returned(sourceText, p.root), cats |-> c.cats]

\* batch(sourceText, patches), up to the application of the categories
batchPlan(sourceText, patches) ==
  batchParsed(sourceText, parse(sourceText),
              categorize(patches, Categories(<< >>, << >>, << >>)))

(***************************************************************************)
(* The inputs of the model: source texts and patches.                      *)
(***************************************************************************)
\* the characters of the generated source texts
Alphabet == {"{", "}", "[", "]", ":", ",", "\"", "\\", "/", "*", "1", "e", " ", "\n"}

\* every text of at most MaxLen characters of the alphabet
Texts == UNION {[1..n -> Alphabet] : n \in 0..MaxLen}

\* {"a": {"b": 1}, "c": [1, 2]}
DocNested ==
  <<"{", "\"", "a", "\"", ":", " ", "{", "\"", "b", "\"", ":", " ", "1", "}", ",", " ", "\"", "c", "\"", ":", " ", "[", "1", ",", " ", "2", "]", "}">>

\* a line comment, then { "a" : [ ] /*y*/, "c":{} }: empty containers, trivia
DocTrivia ==
  <<"/", "/", " ", "x", "\n", "{", " ", "\"", "a", "\"", " ", ":", " ", "[", " ", "]", " ", "/", "*", "y", "*", "/", ",", " ", "\"", "c", "\"", ":", "{", "}", " ", "}">>

\* {"\/": 1, "a": "x"}: a key written with an escape, a string leaf
DocEscaped ==
  <<"{", "\"", "\\", "/", "\"", ":", " ", "1", ",", " ", "\"", "a", "\"", ":", " ", "\"", "x", "\"", "}">>

\* [[1], 2 3]: an array as the root, two elements without a comma
DocArray ==
  <<"[", "[", "1", "]", ",", " ", "2", " ", "3", "]">>

\* a quote and a backslash: the string token runs past the end of the text
DocOverrun ==
  <<"\"", "\\">>

\* {"a": @}: does not tokenize
DocBadLex ==
  <<"{", "\"", "a", "\"", ":", " ", "@", "}">>

\* {"a":}: tokenizes, does not parse
DocBadParse ==
  <<"{", "\"", "a", "\"", ":", "}">>

Docs == {DocNested, DocTrivia, DocEscaped, DocArray, DocOverrun, DocBadLex, DocBadParse}

Sources == Texts \cup Docs

\* the root
PathRoot == <<>>

\* a
PathA == <<"a">>

\* a.b
PathAB == <<"a", ".", "b">>

\* c
PathC == <<"c">>

\* c[1]
PathC1 == <<"c", "[", "1", "]">>

\* /c/0
PathPointerC0 == <<"/", "c", "/", "0">>

\* x
PathX == <<"x">>

\* a.b.z
PathABZ == <<"a", ".", "b", ".", "z">>

\* /~1: the key "/"
PathPointerSlash == <<"/", "~", "1">>

\* [0]
PathIndex0 == <<"[", "0", "]">>

\* a-: parseDotPath does not return on it
PathDash == <<"a", "-">>

\* the patches of replace
ReplacePatches ==
  {[path |-> PathRoot, value |-> <<"0">>],
   [path |-> PathA, value |-> <<"[", "7", "]">>],
   [path |-> PathAB, value |-> <<"9", "9">>],
   [path |-> PathC, value |-> <<"n", "u", "l", "l">>],
   [path |-> PathC1, value |-> <<"7", "7">>],
   [path |-> PathPointerC0, value |-> <<"5">>],
   [path |-> PathX, value |-> <<"0">>],
   [path |-> PathABZ, value |-> <<"0">>],
   [path |-> PathPointerSlash, value |-> <<"2", "2">>],
   [path |-> PathIndex0, value |-> <<"3", "3">>],
   [path |-> PathDash, value |-> <<"0">>]}

\* the patches of insert: with and without key, with and without position
InsertPatches ==
  {[path |-> PathRoot, key |-> <<"k">>, value |-> <<"0">>],
   [path |-> PathRoot, value |-> <<"0">>],
   [path |-> PathRoot, key |-> << >>, value |-> <<"0">>],
   [path |-> PathRoot, key |-> <<"/">>, value |-> <<"3">>],
   [path |-> PathA, key |-> <<"b">>, value |-> <<"2">>],
   [path |-> PathC, position |-> 1, value |-> <<"5">>],
   [path |-> PathC, value |-> <<"6", "6">>],
   [path |-> PathC, key |-> <<"k">>, position |-> 0, value |-> <<"8">>],
   [path |-> PathC, position |-> 3, value |-> <<"7">>],
   [path |-> PathC, position |-> 2, value |-> <<"9">>],
   [path |-> PathC, position |-> 0 - 1, value |-> <<"9">>],
   [path |-> PathRoot, position |-> 1, value |-> <<"t", "r", "u", "e">>],
   [path |-> PathX, key |-> <<"k">>, value |-> <<"0">>],
   [path |-> PathAB, key |-> <<"k">>, value |-> <<"0">>],
   [path |-> PathIndex0, value |-> <<"4">>]}

\* the entries of batch: the four operations, an entry without
\* operation, an unknown operation, entries without value
BatchPatches ==
  {[operation |-> "replace", path |-> PathAB, value |-> <<"9", "9">>],
   [operation |-> "replace", path |-> PathC1, value |-> <<"[", "]">>],
   [operation |-> "replace", path |-> PathX, value |-> <<"0">>],
   [operation |-> "insert", path |-> PathRoot, key |-> <<"k">>, value |-> <<"0">>],
   [operation |-> "insert", path |-> PathC, position |-> 0, value |-> <<"8">>],
   [operation |-> "delete", path |-> PathA],
   [operation |-> "remove", path |-> PathPointerC0],
   [path |-> PathA, value |-> <<"1">>],
   [operation |-> "", path |-> PathX],
   [operation |-> "update", path |-> PathC, value |-> <<"1">>],
   [operation |-> "replace", path |-> PathAB],
   [operation |-> "insert", path |-> PathC, key |-> <<"k">>]}

\* the patches of remove
DeletePatches == {[path |-> PathA], [path |-> PathC1], [path |-> PathX], [path |-> PathIndex0]}

\* the lists of at most n members of S
ListsUpTo(S, n) == UNION {[1..k -> S] : k \in 0..n}

\* a document is patched with up to MaxPatches patches; a generated text
\* with none, or with the first patch of the given list
PatchLists(sourceText, S, first) ==
  IF sourceText \in Docs THEN ListsUpTo(S, MaxPatches) ELSE {<< >>, <<first>>}

(***************************************************************************)
(* The state machine: one call of the library on a source text.            *)
(***************************************************************************)
VARIABLES
  sourceText,       \* the text the call is made on
  call,             \* the function called: "none" before the call
  patches,          \* the patches of the call
  pc,               \* "idle", inside a call, "done", or "hung"
  lexed,            \* what tokenize() gave (call = "tokenize")
  built,            \* what tokenize() and build() gave (call = "build")
  work,             \* replace, insert: the entries of reverseNodes still to apply
  result,           \* the working text of the call
  splices,          \* how many times the call has rewritten the working text
  cats,             \* batch: the categorized patches
  step,             \* batch: the index in batchOrder of the next category
  resolvedAgainst,  \* batch: per category run, the text it started from
                    \* and the tree it resolved its paths against
  outcome           \* how the call ended

vars == <<sourceText, call, patches, pc, lexed, built, work, result, splices,
          cats, step, resolvedAgainst, outcome>>

NoOutcome == [status |-> "none", text |-> << >>, error |-> NoError, root |-> Null]

NotRun == [ok |-> FALSE, error |-> NoError]

NoCats == Categories(<< >>, << >>, << >>)

Init ==
  /\ sourceText \in Sources
  /\ call = "none"
  /\ patches = << >>
  /\ pc = "idle"
  /\ lexed = NotRun
  /\ built = NotRun
  /\ work = << >>
  /\ result = sourceText
  /\ splices = 0
  /\ cats = NoCats
  /\ step = 1
  /\ resolvedAgainst = << >>
  /\ outcome = NoOutcome

\* where a call goes once it has an outcome
pcOf(out) == IF out.status = "hang" THEN "hung" ELSE "done"

\* new Tokenizer(sourceText).tokenize()
Tokenize ==
  /\ pc = "idle"
  /\ call' = "tokenize"
  /\ lexed' = tokenize(sourceText)
  /\ pc' = "done"
  /\ UNCHANGED <<sourceText, patches, built, work, result, splices, cats, step,
                 resolvedAgainst, outcome>>

\* new CSTBuilder(new Tokenizer(sourceText).tokenize()).build()
Build ==
  /\ pc = "idle"
  /\ call' = "build"
  /\ built' = parse(sourceText)
  /\ pc' = "done"
  /\ UNCHANGED <<sourceText, patches, lexed, work, result, splices, cats, step,
                 resolvedAgainst, outcome>>

\* a call that has made its plan goes into its loop, or ends
Started(name, loop, ps, plan) ==
  /\ call' = name
  /\ patches' = ps
  /\ work' = plan.reverseNodes
  /\ IF plan.outcome.status = "returned"
     THEN pc' = loop /\ outcome' = outcome
     ELSE pc' = pcOf(plan.outcome) /\ outcome' = plan.outcome

\* replace(sourceText, ps), up to the splice loop
ReplaceStart ==
  /\ pc = "idle"
  /\ \E ps \in PatchLists(sourceText, ReplacePatches, [path |-> PathRoot, value |-> <<"0">>]) :
       Started("replace", "replace.splice", ps, replacePlan(sourceText, ps))
  /\ UNCHANGED <<sourceText, lexed, built, result, splices, cats, step, resolvedAgainst>>

\* one iteration of the splice loop of replace
ReplaceSplice ==
  /\ pc = "replace.splice"
  /\ work # << >>
  /\ result' = replaceSplice(result, Head(work))
  /\ work' = Tail(work)
  /\ splices' = splices + 1
  /\ UNCHANGED <<sourceText, call, patches, pc, lexed, built, cats, step,
                 resolvedAgainst, outcome>>

\* return result
ReplaceReturn ==
  /\ pc = "replace.splice"
  /\ work = << >>
  /\ outcome' = Returned(result, parse(sourceText).root)
  /\ pc' = "done"
  /\ UNCHANGED <<sourceText, call, patches, lexed, built, work, result, splices,
                 cats, step, resolvedAgainst>>

\* insert(sourceText, ps), up to the loop
InsertStart ==
  /\ pc = "idle"
  /\ \E ps \in PatchLists(sourceText, InsertPatches,
                          [path |-> PathRoot, key |-> <<"k">>, value |-> <<"0">>]) :
       Started("insert", "insert.loop", ps, insertPlan(sourceText, ps))
  /\ UNCHANGED <<sourceText, lexed, built, result, splices, cats, step, resolvedAgainst>>

\* what one iteration of the loop of insert does with what insertIntoNode
\* gave: the working text is rewritten, or the call throws
Inserted(r) ==
  IF r.ok
  THEN /\ result' = r.text
       /\ splices' = IF Head(work).node.type \in {"Object", "Array"}
                     THEN splices + 1 ELSE splices
       /\ work' = Tail(work)
       /\ UNCHANGED <<pc, outcome>>
  ELSE /\ outcome' = Threw(r.error, parse(sourceText).root)
       /\ pc' = "done"
       /\ UNCHANGED <<result, splices, work>>

\* one iteration of the loop of insert
InsertStep ==
  /\ pc = "insert.loop"
  /\ work # << >>
  /\ Inserted(insertIntoNode(result, Head(work).node, Head(work).patch, sourceText))
  /\ UNCHANGED <<sourceText, call, patches, lexed, built, cats, step, resolvedAgainst>>

\* return result
InsertReturn ==
  /\ pc = "insert.loop"
  /\ work = << >>
  /\ outcome' = Returned(result, parse(sourceText).root)
  /\ pc' = "done"
  /\ UNCHANGED <<sourceText, call, patches, lexed, built, work, result, splices,
                 cats, step, resolvedAgainst>>

\* a call made in one step ends with its outcome
Ended(name, ps, out) ==
  /\ call' = name
  /\ patches' = ps
  /\ outcome' = out
  /\ pc' = pcOf(out)
  /\ result' = IF out.status = "returned" THEN out.text ELSE result

\* remove(sourceText, ps)
Remove ==
  /\ pc = "idle"
  /\ \E ps \in PatchLists(sourceText, DeletePatches, [path |-> PathRoot]) :
       Ended("remove", ps, remove(sourceText, ps, Null))
  /\ UNCHANGED <<sourceText, lexed, built, work, splices, cats, step, resolvedAgainst>>

\* batch has categorized its patches, or has thrown
BatchStarted(ps, plan) ==
  /\ call' = "batch"
  /\ patches' = ps
  /\ cats' = plan.cats
  /\ IF plan.outcome.status = "returned"
     THEN pc' = "batch.apply" /\ outcome' = outcome
     ELSE pc' = pcOf(plan.outcome) /\ outcome' = plan.outcome

\* batch(sourceText, ps), up to the application of the categories
BatchStart ==
  /\ pc = "idle"
  /\ \E ps \in PatchLists(sourceText, BatchPatches, [path |-> PathRoot, value |-> <<"0">>]) :
       BatchStarted(ps, batchPlan(sourceText, ps))
  /\ UNCHANGED <<sourceText, lexed, built, work, result, splices, step, resolvedAgainst>>

\* what a category of batch does with the outcome of the function it
\* called: the text goes on to the next category, or the call ends
BatchApplied(category, out) ==
  /\ resolvedAgainst' =
       IF out.root = Null THEN resolvedAgainst
       ELSE Append(resolvedAgainst,
                   [category |-> category, text |-> result, root |-> out.root])
  /\ IF out.status = "returned"
     THEN /\ result' = out.text
          /\ step' = step + 1
          /\ splices' = IF out.text = result THEN splices ELSE splices + 1
          /\ UNCHANGED <<pc, outcome>>
     ELSE /\ outcome' = out
          /\ pc' = pcOf(out)
          /\ UNCHANGED <<result, step, splices>>

BatchSkipped ==
  /\ step' = step + 1
  /\ UNCHANGED <<pc, outcome, result, splices, resolvedAgainst>>

\* if (replacePatches.length > 0) result = replace(result, replacePatches, root)
BatchReplace ==
  /\ pc = "batch.apply"
  /\ step <= Len(batchOrder)
  /\ batchOrder[step] = "replace"
  /\ IF Len(cats.replace) > 0
     THEN BatchApplied("replace", replace(result, cats.replace))
     ELSE BatchSkipped
  /\ UNCHANGED <<sourceText, call, patches, lexed, built, work, cats>>

\* if (insertPatches.length > 0) result = insert(result, insertPatches, currentRoot)
BatchInsert ==
  /\ pc = "batch.apply"
  /\ step <= Len(batchOrder)
  /\ batchOrder[step] = "insert"
  /\ IF Len(cats.insert) > 0
     THEN BatchApplied("insert", insert(result, cats.insert))
     ELSE BatchSkipped
  /\ UNCHANGED <<sourceText, call, patches, lexed, built, work, cats>>

\* if (deletePatches.length > 0) result = remove(result, deletePatches, currentRoot)
BatchDelete ==
  /\ pc = "batch.apply"
  /\ step <= Len(batchOrder)
  /\ batchOrder[step] = "delete"
  /\ IF Len(cats.delete) > 0
     THEN BatchApplied("delete",
            remove(result, cats.delete, deleteRoot(cats, parse(sourceText).root)))
     ELSE BatchSkipped
  /\ UNCHANGED <<sourceText, call, patches, lexed, built, work, cats>>

\* return result
BatchReturn ==
  /\ pc = "batch.apply"
  /\ step > Len(batchOrder)
  /\ outcome' = Returned(result, parse(sourceText).root)
  /\ pc' = "done"
  /\ UNCHANGED <<sourceText, call, patches, lexed, built, work, result, splices,
                 cats, step, resolvedAgainst>>

Next ==
  \/ Tokenize
  \/ Build
  \/ ReplaceStart
  \/ ReplaceSplice
  \/ ReplaceReturn
  \/ InsertStart
  \/ InsertStep
  \/ InsertReturn
  \/ Remove
  \/ BatchStart
  \/ BatchReplace
  \/ BatchInsert
  \/ BatchDelete
  \/ BatchReturn

Spec == Init /\ [][Next]_vars

(***************************************************************************)
(* A second state machine, for the path resolver and the helper it reads   *)
(* keys with: one call of unescapeString on a text, or one call of         *)
(* resolvePath on the tree of a document.                                  *)
(***************************************************************************)
\* longest content written between the brackets of a generated path
MaxIndexLen == 2

\* the characters of the generated key texts: the backslash, the eight
\* characters that name an escape, one that names none, a line terminator
EscapeAlphabet == {"\\", "\"", "/", "b", "f", "n", "r", "t", "u", "\n"}

\* every text of at most MaxLen characters of the escape alphabet
KeyTexts == UNION {[1..n -> EscapeAlphabet] : n \in 0..MaxLen}

\* {"/": 1, "\/": 2, "/": [3]}: three properties with the key /
DocDuplicate ==
  <<"{", "\"", "/", "\"", ":", " ", "1", ",", " ", "\"", "\\", "/", "\"", ":", " ", "2", ",", " ", "\"", "/", "\"", ":", " ", "[", "3", "]", "}">>

\* {"": [1, 2]}: a property with the empty key
DocEmptyKey ==
  <<"{", "\"", "\"", ":", " ", "[", "1", ",", " ", "2", "]", "}">>

\* {"\u": 1, "u": 2}: a key with a backslash that starts none of the
\* eight escapes
DocUnknownEscape ==
  <<"{", "\"", "\\", "u", "\"", ":", " ", "1", ",", " ", "\"", "u", "\"", ":", " ", "2", "}">>

\* {"0": [7], "a1": {"1": 2}}: keys made of digits
DocDigitKey ==
  <<"{", "\"", "0", "\"", ":", " ", "[", "7", "]", ",", " ", "\"", "a", "1", "\"", ":", " ", "{", "\"", "1", "\"", ":", " ", "2", "}", "}">>

ResolverDocs ==
  {DocNested, DocEscaped, DocArray, DocDuplicate, DocEmptyKey, DocUnknownEscape,
   DocDigitKey}

ResolverSources == KeyTexts \cup ResolverDocs

\* the pointer /
PathPointerRoot == <<"/">>

\* u
PathU == <<"u">>

\* c.0: the dot notation gives the string 0, not the number
PathCDot0 == <<"c", ".", "0">>

\* /0
PathPointer0 == <<"/", "0">>

\* what the generated paths have between their brackets: digits, a
\* sign, a letter
BracketContents == UNION {[1..n -> {"0", "1", "3", "-", "x"}] : n \in 0..MaxIndexLen}

\* [content]
BracketPaths == {<<"[">> \o content \o <<"]">> : content \in BracketContents}

\* longest segment of a generated pointer of one segment
MaxSegmentLen == 3

\* the segments written with the tilde and the two digits of its escapes
TildeSegments == UNION {[1..n -> {"~", "0", "1"}] : n \in 0..MaxSegmentLen}

\* /segment
TildePaths == {<<"/">> \o segment : segment \in TildeSegments}

ResolverPaths ==
  {PathRoot, PathPointerRoot, PathA, PathAB, PathC, PathC1, PathPointerC0, PathX,
   PathABZ, PathPointerSlash, PathDash, PathU, PathCDot0, PathPointer0}
    \cup BracketPaths

\* a document is resolved on the tilde pointers too
PathsFor(text) ==
  IF text \in ResolverDocs THEN ResolverPaths \cup TildePaths ELSE ResolverPaths

\* most steps of a generated step sequence
MaxSteps == 2

\* largest index of a generated step sequence
MaxStepIndex == 2

\* the keys of the generated step sequences: identifier characters only
StepKeys == {<<"a">>, <<"b">>, <<"c">>, <<"a", "1">>, <<"0">>, <<"1">>}

\* the steps of the generated step sequences: a key or an index
Steps ==
  {[key |-> key] : key \in StepKeys} \cup {[index |-> n] : n \in 0..MaxStepIndex}

StepLists == UNION {[1..n -> Steps] : n \in 0..MaxSteps}

\* a non-negative integer in decimal digits
RECURSIVE IndexText(_)
IndexText(n) ==
  IF n < 10 THEN <<<<"0", "1", "2", "3", "4", "5", "6", "7", "8", "9">>[n + 1]>>
  ELSE IndexText(n \div 10) \o IndexText(n % 10)

\* the steps from step i on in dot notation: a.b[2]
RECURSIVE DotSpelling(_, _)
DotSpelling(steps, i) ==
  IF i > Len(steps) THEN << >>
  ELSE (IF has(steps[i], "index") THEN <<"[">> \o IndexText(steps[i].index) \o <<"]">>
        ELSE IF i = 1 THEN steps[i].key
        ELSE <<".">> \o steps[i].key)
         \o DotSpelling(steps, i + 1)

\* the steps from step i on as a JSON Pointer: /a/b/2
RECURSIVE PointerSpelling(_, _)
PointerSpelling(steps, i) ==
  IF i > Len(steps) THEN << >>
  ELSE <<"/">>
         \o (IF has(steps[i], "index") THEN IndexText(steps[i].index) ELSE steps[i].key)
         \o PointerSpelling(steps, i + 1)

\* the two spellings of a step sequence, each as the path of an entry
\* that records the steps
Spellings(steps) ==
  <<[path |-> DotSpelling(steps, 1), steps |-> steps],
    [path |-> PointerSpelling(steps, 1), steps |-> steps]>>

ResolverInit ==
  /\ sourceText \in ResolverSources
  /\ call = "none"
  /\ patches = << >>
  /\ pc = "idle"
  /\ lexed = NotRun
  /\ built = NotRun
  /\ work = << >>
  /\ result = sourceText
  /\ splices = 0
  /\ cats = NoCats
  /\ step = 1
  /\ resolvedAgainst = << >>
  /\ outcome = NoOutcome

\* unescapeString(sourceText)
Unescape ==
  /\ pc = "idle"
  /\ call' = "unescapeString"
  /\ result' = unescapeString(sourceText)
  /\ pc' = "done"
  /\ UNCHANGED <<sourceText, patches, lexed, built, work, splices, cats, step,
                 resolvedAgainst, outcome>>

\* resolvePath(root, path, sourceText) has given a node or null, or
\* parsePath has not returned
Resolved(path, root) ==
  /\ call' = "resolvePath"
  /\ patches' = <<[path |-> path]>>
  /\ IF parsePath(path).ok
     THEN /\ work' = resolvePatches(root, <<[path |-> path]>>, sourceText)
          /\ pc' = "done"
          /\ outcome' = outcome
     ELSE /\ work' = << >>
          /\ pc' = "hung"
          /\ outcome' = Hang(root)

\* resolvePath(root, path, sourceText), root the tree of the source text
Resolve ==
  /\ pc = "idle"
  /\ parse(sourceText).ok
  /\ \E path \in PathsFor(sourceText) : Resolved(path, parse(sourceText).root)
  /\ UNCHANGED <<sourceText, lexed, built, result, splices, cats, step, resolvedAgainst>>

\* resolvePath(root, path, sourceText) twice, on the two spellings of a
\* step sequence, root the tree of a document
ResolveSpellings ==
  /\ pc = "idle"
  /\ sourceText \in ResolverDocs
  /\ parse(sourceText).ok
  /\ \E steps \in StepLists :
       /\ call' = "resolvePath"
       /\ patches' = Spellings(steps)
       /\ work' = resolvePatches(parse(sourceText).root, Spellings(steps), sourceText)
  /\ pc' = "done"
  /\ UNCHANGED <<sourceText, lexed, built, result, splices, cats, step,
                 resolvedAgainst, outcome>>

ResolverNext ==
  \/ Unescape
  \/ Resolve
  \/ ResolveSpellings

ResolverSpec == ResolverInit /\ [][ResolverNext]_vars

(***************************************************************************)
(* The tokenizer on words and stray characters.                            *)
(***************************************************************************)
\* what stands before the word: nothing, trivia, a token, an open string,
\* an open comment
LexerPrefixes ==
  {<< >>, <<" ">>, <<"[">>, <<"1">>, <<"-">>, <<"\"">>, <<"/", "*">>, <<"/", "/">>}

\* the keywords, words that are not keywords, characters with no token
LexerWords ==
  {<<"t", "r", "u", "e">>, <<"f", "a", "l", "s", "e">>, <<"n", "u", "l", "l">>,
   <<"n", "u", "l">>, <<"t", "r", "u", "e", "e">>, <<"T", "r", "u", "e">>,
   <<"e">>, <<"@">>, <<"/">>, <<"+">>, <<".">>, <<"_">>, <<"\\">>}

\* what stands after the word: nothing, a letter, trivia, a token, the end
\* of a string, of a block comment, of a line
LexerSuffixes ==
  {<< >>, <<"x">>, <<" ">>, <<"]">>, <<"1">>, <<"\"">>, <<"*", "/">>, <<"\n">>,
   <<"\n", "@">>}

LexerSources ==
  {pre \o word \o post :
     pre \in LexerPrefixes, word \in LexerWords, post \in LexerSuffixes}

LexerInit ==
  /\ sourceText \in LexerSources
  /\ call = "none"
  /\ patches = << >>
  /\ pc = "idle"
  /\ lexed = NotRun
  /\ built = NotRun
  /\ work = << >>
  /\ result = sourceText
  /\ splices = 0
  /\ cats = NoCats
  /\ step = 1
  /\ resolvedAgainst = << >>
  /\ outcome = NoOutcome

LexerNext == Tokenize \/ Build

LexerSpec == LexerInit /\ [][LexerNext]_vars

(***************************************************************************)
(* Properties.                                                             *)
(***************************************************************************)
\* the source text parses and every path of the call is parsed: the
\* patches of the call can be resolved
Resolvable == parse(sourceText).ok /\ ~somePathHangs(patches)

\* the node that patch i of the call resolves to, or Null
NodeOf(i) == resolvePath(parse(sourceText).root, patches[i].path, sourceText)

\* the patches of the call that resolve to a node
Found == {i \in 1..Len(patches) : NodeOf(i) # Null}

\* two spans share a character
Overlap(m, n) == m.start < n.end /\ n.start < m.end

\* the nodes that the patches of the call resolve to in a tree, Null for
\* a patch that resolves to none
TargetsIn(root) ==
  [i \in 1..Len(patches) |-> resolvePath(root, patches[i].path, sourceText)]

\* two of the nodes overlap or nest
SomeOverlap(nodes) ==
  \E i, j \in 1..Len(nodes) :
    i # j /\ nodes[i] # Null /\ nodes[j] # Null /\ Overlap(nodes[i], nodes[j])

\* two patches of the call resolve to spans that overlap or nest
Overlapping == SomeOverlap(TargetsIn(parse(sourceText).root))

\* the source text with the span of every target replaced by the value of
\* its patch, put together from left to right: the text up to the first
\* target that starts at or after `from`, its value, and so on
RECURSIVE Stitched(_, _)
Stitched(from, targets) ==
  IF targets = {} THEN sliceFrom(sourceText, from)
  ELSE LET i == CHOOSE i \in targets :
                  \A j \in targets : NodeOf(i).start <= NodeOf(j).start
       IN  slice(sourceText, from, NodeOf(i).start) \o patches[i].value
             \o Stitched(NodeOf(i).end, targets \ {i})

\* C1: a replace call that returns gives the source text in which the span
\* of each resolved target, taken in document order, is replaced by the
\* value of its patch, and every character outside those spans is kept in
\* place.
ReplaceKeepsTheRest ==
  (call = "replace" /\ pc = "done" /\ outcome.status = "returned")
    => outcome.text = Stitched(0, Found)

\* a replace call with two resolved targets has returned a rewritten text
ReplaceKeepsTheRestWitness ==
  /\ call = "replace" /\ pc = "done" /\ outcome.status = "returned"
  /\ splices = 2
  /\ Len(outcome.text) # Len(sourceText)

\* C2: a replace call in which two patches resolve to spans that overlap
\* or nest ends with a conflict error, and it never rewrites its working
\* text: no splice is made and no text is returned.
ReplaceRejectsOverlap ==
  (call = "replace" /\ pc # "hung" /\ Resolvable /\ Overlapping)
    => /\ pc = "done"
       /\ outcome.status = "threw"
       /\ outcome.error.message = "Patch conflict at path"
       /\ splices = 0
       /\ result = sourceText

\* replace was called with a patch for `a` and a patch for `a.b` on a text
\* in which both resolve, and has thrown
ReplaceRejectsOverlapWitness ==
  /\ call = "replace" /\ pc = "done" /\ sourceText = DocNested
  /\ Len(patches) = 2 /\ patches[1].path = PathA /\ patches[2].path = PathAB
  /\ outcome.status = "threw"

\* the tokens cover the text: the first starts at 0, each ends where the
\* next starts, the last ends at the length of the text, and the slices
\* of the tokens put together are the text
RECURSIVE Slices(_, _)
Slices(text, tokens) ==
  IF tokens = << >> THEN << >>
  ELSE slice(text, Head(tokens).start, Head(tokens).end) \o Slices(text, Tail(tokens))

Covers(tokens, text) ==
  /\ tokens = << >> => text = << >>
  /\ tokens # << >> => tokens[1].start = 0 /\ tokens[Len(tokens)].end = Len(text)
  /\ \A i \in 1..(Len(tokens) - 1) : tokens[i].end = tokens[i + 1].start
  /\ Slices(text, tokens) = text

\* C3: the tokens that tokenize() returns cover the source exactly: the
\* first token starts at 0, each token ends where the next starts, the
\* last token ends at the length of the source, and the slices of the
\* tokens put together are the source.
TokenCoverage ==
  (call = "tokenize" /\ pc = "done" /\ lexed.ok) => Covers(lexed.tokens, sourceText)

\* the entries of the call with one of the given operations, in input order
RECURSIVE OfOperation(_, _)
OfOperation(entries, operations) ==
  IF entries = << >> THEN << >>
  ELSE IF Head(entries).operation \in operations
  THEN <<Head(entries)>> \o OfOperation(Tail(entries), operations)
  ELSE OfOperation(Tail(entries), operations)

\* the text that a function gives for a category, the text itself when
\* the category is empty
ThenReplace(text, entries) == IF entries = << >> THEN text ELSE replace(text, entries).text

ThenInsert(text, entries) == IF entries = << >> THEN text ELSE insert(text, entries).text

ThenRemove(text, entries) ==
  IF entries = << >> THEN text ELSE remove(text, entries, Null).text

\* C4: the text that batch returns is remove(insert(replace(text, R), I), D),
\* where R, I and D are the replace, the insert and the delete or remove
\* entries of the call, each in input order, and an empty category is
\* skipped: the categories are applied in this order whatever the order
\* of the entries.
BatchAppliesInOrder ==
  (call = "batch" /\ pc = "done" /\ outcome.status = "returned")
    => outcome.text =
         ThenRemove(ThenInsert(ThenReplace(sourceText,
                                           OfOperation(patches, {"replace"})),
                               OfOperation(patches, {"insert"})),
                    OfOperation(patches, {"delete", "remove"}))

\* batch has returned from a call whose first entry is a deletion and
\* whose second entry is a replacement or an insertion, and both
\* categories were applied
BatchAppliesInOrderWitness ==
  /\ call = "batch" /\ pc = "done" /\ outcome.status = "returned"
  /\ Len(patches) = 2
  /\ patches[1].operation \in {"delete", "remove"}
  /\ patches[2].operation \in {"replace", "insert"}
  /\ Len(resolvedAgainst) = 2
  /\ resolvedAgainst[2].text # sourceText
  /\ outcome.text # resolvedAgainst[2].text

\* an entry that batch does not accept: no operation, an operation that
\* is not one of the four, or a replace or insert entry without value
Rejected(entry) ==
  \/ ~has(entry, "operation")
  \/ entry.operation \notin {"replace", "delete", "remove", "insert"}
  \/ entry.operation \in {"replace", "insert"} /\ ~has(entry, "value")

\* the first entry of the call that batch does not accept
FirstRejected ==
  CHOOSE i \in 1..Len(patches) :
    Rejected(patches[i]) /\ \A j \in 1..(i - 1) : ~Rejected(patches[j])

\* the message of the error names the path
Names(error, path) == has(error.args, "path") /\ error.args.path = path

\* the call has thrown the error of its first rejected entry, and no
\* category was applied
ThrewForFirstRejected ==
  /\ pc = "done"
  /\ outcome.status = "threw"
  /\ Names(outcome.error, patches[FirstRejected].path)
  /\ resolvedAgainst = << >>
  /\ splices = 0
  /\ result = sourceText

\* C5, as claimed: when an entry of a batch call is not accepted, batch
\* raises the error of the first such entry, with its path in the
\* message, before any category is applied.
BatchRejectsFirst ==
  (call = "batch" /\ \E i \in 1..Len(patches) : Rejected(patches[i]))
    => ThrewForFirstRejected

\* C5, amended: the same, for a source text that tokenizes and parses
\* (batch tokenizes and parses the text before it looks at the entries).
BatchRejectsFirstOfParsed ==
  (call = "batch" /\ parse(sourceText).ok
     /\ \E i \in 1..Len(patches) : Rejected(patches[i]))
    => ThrewForFirstRejected

\* batch was called with an accepted entry followed by a rejected one, and
\* has thrown the error that names the path of the second
BatchRejectsFirstOfParsedWitness ==
  /\ call = "batch" /\ pc = "done" /\ outcome.status = "threw"
  /\ Len(patches) = 2 /\ ~Rejected(patches[1]) /\ Rejected(patches[2])
  /\ patches[1].path # patches[2].path
  /\ Names(outcome.error, patches[2].path)

\* C6: every category of a batch call resolves its paths against the tree
\* of the text as it stands when the category starts: the tree is the one
\* that tokenizing and parsing that text gives.
BatchResolvesAgainstCurrentText ==
  \A i \in 1..Len(resolvedAgainst) :
    resolvedAgainst[i].root = parse(resolvedAgainst[i].text).root

\* the deletions of a batch call have started from a text that an earlier
\* category had rewritten
BatchResolvesAgainstCurrentTextWitness ==
  /\ call = "batch"
  /\ Len(resolvedAgainst) = 2
  /\ resolvedAgainst[2].category = "delete"
  /\ resolvedAgainst[2].text # sourceText
  /\ parse(resolvedAgainst[2].text).root # parse(sourceText).root

\* a patch that resolves to the node addresses no applicable target: the
\* node is not-found, or the call is an insert and the node is a leaf
InapplicableTo(node) ==
  \/ node = Null
  \/ call = "insert" /\ node.type \notin {"Object", "Array"}

\* the patches of the call, from patch i on, that address a target, in
\* input order; nodes are the nodes that the patches resolve to
RECURSIVE Applicable(_, _)
Applicable(nodes, i) ==
  IF i > Len(patches) THEN << >>
  ELSE IF InapplicableTo(nodes[i]) THEN Applicable(nodes, i + 1)
  ELSE <<patches[i]>> \o Applicable(nodes, i + 1)

\* the call has ended as the call with the applicable patches alone
\* does, and has returned the source text when there is none
EndedAsWithout(nodes) ==
  /\ outcome = IF call = "replace" THEN replace(sourceText, Applicable(nodes, 1))
               ELSE insert(sourceText, Applicable(nodes, 1))
  /\ (\A i \in 1..Len(nodes) : InapplicableTo(nodes[i]))
       => outcome.status = "returned" /\ outcome.text = sourceText

\* C7: in replace and insert a patch that resolves to not-found, and in
\* insert a patch that resolves to a leaf, changes nothing and raises
\* nothing: the call ends as the call without these patches does, and
\* when every patch is of this kind it returns the source text.
InapplicablePatchIsNoOp ==
  (call \in {"replace", "insert"} /\ pc = "done" /\ Resolvable)
    => EndedAsWithout(TargetsIn(parse(sourceText).root))

\* insert has returned from a call with a patch that resolves to a leaf
\* and a patch that resolves to not-found
InapplicablePatchIsNoOpWitness ==
  /\ call = "insert" /\ pc = "done" /\ Resolvable
  /\ Len(patches) = 2
  /\ NodeOf(1) # Null /\ NodeOf(1).type \notin {"Object", "Array"}
  /\ NodeOf(2) = Null
  /\ outcome.status = "returned"

\* C8: on a source text that tokenizes and parses, replace and insert
\* with no patch return the text unchanged.
EmptyPatchListIsIdentity ==
  (call \in {"replace", "insert"} /\ pc = "done" /\ patches = << >>
     /\ parse(sourceText).ok)
    => outcome.status = "returned" /\ outcome.text = sourceText

\* replace with no patch has returned on a text with comments and
\* whitespace
EmptyPatchListIsIdentityWitness ==
  /\ call = "replace" /\ pc = "done" /\ patches = << >>
  /\ sourceText = DocTrivia
  /\ outcome.status = "returned"

\* C9: the message of the conflict error that replace raises has in it
\* the path of a patch whose target overlaps the target of another patch.
ConflictErrorNamesPath ==
  (call = "replace" /\ pc = "done" /\ outcome.status = "threw"
     /\ outcome.error.message = "Patch conflict at path")
    => \E i, j \in Found :
         /\ i # j
         /\ Overlap(NodeOf(i), NodeOf(j))
         /\ Names(outcome.error, patches[i].path)

\* the unescaped keys of the properties of an object of the source text
KeysOf(objectNode) ==
  {extractString(objectNode.properties[i].key, sourceText) :
     i \in 1..Len(objectNode.properties)}

\* patch i of an insert call resolves to an object and has no key, or has
\* the key of a property of the object
UnacceptableFor(node, patch) ==
  /\ node # Null
  /\ node.type = "Object"
  /\ ~has(patch, "key") \/ patch.key \in KeysOf(node)

Unacceptable(i) == UnacceptableFor(NodeOf(i), patches[i])

\* some patch of the call is unacceptable for the node it resolves to
SomeUnacceptable(nodes) ==
  \E i \in 1..Len(nodes) : UnacceptableFor(nodes[i], patches[i])

\* C10: an insert call with a patch that resolves to an object and has no
\* key, or has the key of a property that the object already has (keys
\* compared after unescaping), raises an error and returns no text.
InsertRejectsKey ==
  (call = "insert" /\ pc = "done" /\ Resolvable
     /\ SomeUnacceptable(TargetsIn(parse(sourceText).root)))
    => outcome.status = "threw" /\ outcome.text = << >>

\* insert has thrown on a patch whose key is the unescaped text of a key
\* that the source writes with an escape
InsertRejectsKeyWitness ==
  /\ call = "insert" /\ pc = "done" /\ sourceText = DocEscaped
  /\ Len(patches) = 1 /\ has(patches[1], "key") /\ patches[1].key = <<"/">>
  /\ outcome.status = "threw"
  /\ outcome.error.message = "Key already exists in object"

\* the call is an insert of one patch, which resolves to a node of the
\* given type, and it has ended
InsertsOneInto(type) ==
  /\ call = "insert" /\ pc = "done" /\ Resolvable
  /\ Len(patches) = 1
  /\ NodeOf(1) # Null
  /\ NodeOf(1).type = type

\* the position that a patch asks for in an array of n elements
PositionOf(patch, n) == IF has(patch, "position") THEN patch.position ELSE n

\* the patch with its position written out
WithPosition(patch, position) ==
  [path |-> patch.path, value |-> patch.value, position |-> position]

\* how an insert of one patch into an array of n elements ends: an error
\* for a position outside 0..n, and otherwise the text that the patch
\* gives with the position written out, n when it has none
EndsByPosition(patch, n) ==
  IF PositionOf(patch, n) < 0 \/ PositionOf(patch, n) > n
  THEN /\ outcome.status = "threw"
       /\ outcome.error.message = "Invalid position"
  ELSE /\ outcome.status = "returned"
       /\ outcome.text # sourceText
       /\ outcome.text = insert(sourceText, <<WithPosition(patch, PositionOf(patch, n))>>).text

\* C11: an insert patch that resolves to an array of n elements is
\* rejected with the invalid-position error when its position is below 0
\* or above n, is accepted for every position in 0..n, and without a
\* position it does what position n does.
InsertChecksPosition ==
  InsertsOneInto("Array") => EndsByPosition(patches[1], Len(NodeOf(1).elements))

\* insert has appended to an array of two elements for a patch that has
\* no position
InsertChecksPositionWitness ==
  /\ InsertsOneInto("Array")
  /\ Len(NodeOf(1).elements) = 2
  /\ ~has(patches[1], "position")
  /\ outcome.status = "returned"

\* the text with a chunk put in at an offset, nothing else changed
Spliced(text, at, chunk) == slice(text, 0, at) \o chunk \o sliceFrom(text, at)

\* "k": v
NewEntry(patch) == <<"\"">> \o patch.key \o <<"\"", ":", " ">> \o patch.value

\* the keys of an object of a text, unescaped, in document order
KeyList(objectNode, text) ==
  [i \in 1..Len(objectNode.properties) |->
     extractString(objectNode.properties[i].key, text)]

\* the texts of the values of an object of a text, in document order
ValueTexts(objectNode, text) ==
  [i \in 1..Len(objectNode.properties) |->
     slice(text, objectNode.properties[i].value.start,
           objectNode.properties[i].value.end)]

\* the node at the path of the first patch in the text that the call
\* returned, tokenized and parsed anew
NodeAfter == resolvePath(parse(outcome.text).root, patches[1].path, outcome.text)

\* the returned text is the source with the new property put in after the
\* opening brace of an object without properties, and after the value of
\* the last property, behind a comma and a space, otherwise
PropertyPutIn(objectNode, patch) ==
  outcome.text =
    IF Len(objectNode.properties) = 0
    THEN Spliced(sourceText, objectNode.start + 1, NewEntry(patch))
    ELSE Spliced(sourceText,
                 objectNode.properties[Len(objectNode.properties)].value.end,
                 <<",", " ">> \o NewEntry(patch))

\* the object read back from the returned text has the properties it had,
\* in their order, and the new one after them
PropertyIsLast(objectNode, patch, after) ==
  /\ after # Null
  /\ after.type = "Object"
  /\ KeyList(after, outcome.text) = Append(KeyList(objectNode, sourceText), patch.key)
  /\ ValueTexts(after, outcome.text)
       = Append(ValueTexts(objectNode, sourceText), patch.value)

\* C12: an insert of one patch with key k and value v into an object
\* returns the source with `"k": v` put in right after the opening brace
\* when the object has no properties, and with `, "k": v` put in right
\* after the value of the last property otherwise; nothing else changes,
\* the new property is the last one and the others keep their order.
InsertObjectPropertyAtEnd ==
  (InsertsOneInto("Object") /\ ~Unacceptable(1) /\ patches[1].key # << >>)
    => /\ outcome.status = "returned"
       /\ PropertyPutIn(NodeOf(1), patches[1])
       /\ PropertyIsLast(NodeOf(1), patches[1], NodeAfter)

\* insert has added a property to an object that had two
InsertObjectPropertyAtEndWitness ==
  /\ InsertsOneInto("Object")
  /\ Len(NodeOf(1).properties) = 2
  /\ outcome.status = "returned"
  /\ Len(outcome.text) > Len(sourceText)

\* the texts of the elements of an array of a text, in document order
ElementTexts(arrayNode, text) ==
  [i \in 1..Len(arrayNode.elements) |->
     slice(text, arrayNode.elements[i].start, arrayNode.elements[i].end)]

\* a sequence with v put in so that it has index p, counted from 0
PutIn(seq, p, v) == SubSeq(seq, 1, p) \o <<v>> \o SubSeq(seq, p + 1, Len(seq))

\* the array read back from the returned text has one element more: the
\* value at index p, the elements it had around it in their order
ElementPutIn(arrayNode, patch, p, after) ==
  /\ after # Null
  /\ after.type = "Array"
  /\ Len(after.elements) = Len(arrayNode.elements) + 1
  /\ ElementTexts(after, outcome.text)
       = PutIn(ElementTexts(arrayNode, sourceText), p, patch.value)

\* the returned text is the source with the value put in at one place,
\* alone, followed by a comma and a space, or behind a comma and a space
SourceKept(v) ==
  \E at \in 0..Len(sourceText) :
    \E chunk \in {v, v \o <<",", " ">>, <<",", " ">> \o v} :
      outcome.text = Spliced(sourceText, at, chunk)

\* C13: an insert of one patch with value v at an accepted position p into
\* an array of n elements returns a text in which the array, read back,
\* has n + 1 elements, v at index p and the n elements it had in their
\* order around it, and in which every character of the source is kept.
InsertArrayElementAtPosition ==
  (/\ InsertsOneInto("Array")
   /\ PositionOf(patches[1], Len(NodeOf(1).elements)) \in 0..Len(NodeOf(1).elements))
    => /\ outcome.status = "returned"
       /\ ElementPutIn(NodeOf(1), patches[1],
                       PositionOf(patches[1], Len(NodeOf(1).elements)), NodeAfter)
       /\ SourceKept(patches[1].value)

\* insert has put a value in the middle of an array of three elements
InsertArrayElementAtPositionWitness ==
  /\ InsertsOneInto("Array")
  /\ Len(NodeOf(1).elements) = 3
  /\ has(patches[1], "position") /\ patches[1].position = 1
  /\ outcome.status = "returned"

\* resolvePath has returned for the given path
ResolvedFor(path) ==
  call = "resolvePath" /\ pc = "done" /\ patches[1].path = path

\* what resolvePath has returned: a node, or Null
Node == work[1].node

\* the properties of a node whose key is written with nothing between
\* its quotes
EmptyKeys(node) ==
  IF node.type # "Object" THEN {}
  ELSE {i \in 1..Len(node.properties) :
          node.properties[i].key.end = node.properties[i].key.start + 2}

\* the value of the first property with the empty key, or Null
EmptyKeyValue(node) ==
  IF EmptyKeys(node) = {} THEN Null
  ELSE node.properties[CHOOSE i \in EmptyKeys(node) :
                         \A j \in EmptyKeys(node) : i <= j].value

\* C14, as claimed: resolvePath returns the root node for the empty path
\* and for the JSON Pointer /.
RootPathsGiveRoot ==
  (ResolvedFor(PathRoot) \/ ResolvedFor(PathPointerRoot))
    => Node = parse(sourceText).root

\* C14, amended: resolvePath returns the root node for the empty path.
\* The JSON Pointer / is one step, the empty key: it gives the value of
\* the first property of the root whose key is empty, and not-found when
\* the root is no object or has no such property.
RootPathGivesRoot ==
  /\ ResolvedFor(PathRoot) => Node = parse(sourceText).root
  /\ ResolvedFor(PathPointerRoot) => Node = EmptyKeyValue(parse(sourceText).root)

\* the pointer / has given the array that the document has under the
\* empty key, which is not the root
RootPathGivesRootWitness ==
  /\ ResolvedFor(PathPointerRoot)
  /\ sourceText = DocEmptyKey
  /\ Node # Null
  /\ Node.type = "Array"
  /\ Node # parse(sourceText).root

\* a content of brackets that writes an index of an array of n elements:
\* digits, at least one, with a value below n
WritesIndex(content, n) ==
  content # << >> /\ allDigits(content) /\ digitsValue(content, 0) < n

\* the element that a path [content] names in an array, or Null
ElementAt(arrayNode, content) ==
  IF WritesIndex(content, Len(arrayNode.elements))
  THEN arrayNode.elements[digitsValue(content, 0) + 1]
  ELSE Null

\* what a path [content] gives on a root: an element of an array, and
\* not-found on any other node
StepInto(root, path) ==
  IF root.type = "Array" THEN ElementAt(root, slice(path, 1, Len(path) - 1))
  ELSE Null

\* C15: on an array of n elements a step gives element i exactly when it
\* is the integer i with 0 <= i < n; a step out of range, a step that is
\* no number (brackets with nothing or with no digits between them, a
\* string) and a step on a leaf give not-found.
ArrayStepIsIndex ==
  /\ (call = "resolvePath" /\ pc = "done" /\ patches[1].path \in BracketPaths)
       => Node = StepInto(parse(sourceText).root, patches[1].path)
  /\ (ResolvedFor(PathCDot0) \/ ResolvedFor(PathABZ)) => Node = Null

\* the eight escapes: the character after the backslash, and the
\* character that the two decode to
EightEscapes ==
  [c \in {"\"", "\\", "/", "b", "f", "n", "r", "t"} |->
     CASE c = "b" -> Backspace
       [] c = "f" -> FormFeed
       [] c = "n" -> "\n"
       [] c = "r" -> "\r"
       [] c = "t" -> "\t"
       [] OTHER   -> c]

\* a key text with the eight escapes decoded and every other backslash
\* left where it is, with the character after it
RECURSIVE Decoded(_)
Decoded(str) ==
  IF str = << >> THEN << >>
  ELSE IF str[1] = "\\" /\ Len(str) >= 2
  THEN (IF str[2] \in DOMAIN EightEscapes THEN <<EightEscapes[str[2]]>>
        ELSE <<str[1], str[2]>>)
         \o Decoded(SubSeq(str, 3, Len(str)))
  ELSE <<str[1]>> \o Decoded(Tail(str))

\* C16: a key text is unescaped by decoding the eight escapes for quote,
\* backslash, slash, b, f, n, r and t; any other backslash escape is left
\* as its two characters, the backslash included.
OtherEscapesAreKept ==
  (call = "unescapeString" /\ pc = "done") => result = Decoded(sourceText)

\* paths of one step, a key, and the key
KeySteps ==
  {[path |-> PathA, key |-> <<"a">>],
   [path |-> PathC, key |-> <<"c">>],
   [path |-> PathX, key |-> <<"x">>],
   [path |-> PathU, key |-> <<"u">>],
   [path |-> PathPointerSlash, key |-> <<"/">>]}

\* the properties of an object whose unescaped key is the given one
Matching(objectNode, key) ==
  {i \in 1..Len(objectNode.properties) : KeyList(objectNode, sourceText)[i] = key}

\* the value of the first of the given properties, or Null
FirstValue(objectNode, matching) ==
  IF matching = {} THEN Null
  ELSE objectNode.properties[CHOOSE i \in matching : \A j \in matching : i <= j].value

\* the properties of an object that come after a property with the same
\* unescaped key
Shadowed(objectNode) ==
  {j \in 1..Len(objectNode.properties) :
     \E i \in 1..(j - 1) :
       KeyList(objectNode, sourceText)[i] = KeyList(objectNode, sourceText)[j]}

\* resolvePath has returned on a document whose root is an object
ResolvedInObject ==
  call = "resolvePath" /\ pc = "done" /\ parse(sourceText).root.type = "Object"

\* what resolvePath gave for a step that is a key of the root, and for
\* any path: never the value of a property that a property before it
\* shadows
FirstOf(root) ==
  /\ \A ks \in KeySteps :
       patches[1].path = ks.path => Node = FirstValue(root, Matching(root, ks.key))
  /\ \A j \in Shadowed(root) : Node # root.properties[j].value

\* C17: when several properties of an object have the unescaped key of a
\* step, the step gives the value of the first of them in document
\* order; no path gives the value of a later one.
FirstDuplicateWins == ResolvedInObject => FirstOf(parse(sourceText).root)

\* a step has given the value of the first of three properties with the
\* key /, one of them written with an escape
FirstDuplicateWinsWitness ==
  /\ ResolvedInObject
  /\ sourceText = DocDuplicate
  /\ patches[1].path = PathPointerSlash
  /\ Shadowed(parse(sourceText).root) = {2, 3}
  /\ Node = parse(sourceText).root.properties[1].value

\* build() has returned a tree
Built == call = "build" /\ pc = "done" /\ built.ok

\* the children of a node in document order: the key and the value of
\* each property, the elements
Kids(node) ==
  IF node.type = "Object"
  THEN [i \in 1..(2 * Len(node.properties)) |->
          IF i % 2 = 1 THEN node.properties[(i + 1) \div 2].key
          ELSE node.properties[i \div 2].value]
  ELSE IF node.type = "Array" THEN node.elements
  ELSE << >>

RECURSIVE WellNested(_)

\* the children lie inside the node, each ends where or before the next
\* starts, and the same holds inside each of them
KidsNested(node, kids) ==
  \A i \in 1..Len(kids) :
    /\ node.start <= kids[i].start
    /\ kids[i].end <= node.end
    /\ i < Len(kids) => kids[i].end <= kids[i + 1].start
    /\ WellNested(kids[i])

\* the spans of a tree nest, and the key of a property ends before its
\* value starts
WellNested(node) ==
  /\ KidsNested(node, Kids(node))
  /\ node.type = "Object" =>
       \A i \in 1..Len(node.properties) :
         node.properties[i].key.end < node.properties[i].value.start

\* C18: in every tree that build() returns, the span of each child (the
\* key and the value of a property, an element) lies inside the span of
\* its parent, the key of a property ends before its value starts, and
\* the children of a node do not overlap and come by ascending start.
SpansNest == Built => WellNested(built.root)

\* build() has returned a tree with an object inside an object and an
\* array of two elements
SpansNestWitness ==
  /\ Built
  /\ sourceText = DocNested
  /\ Len(built.root.properties) = 2
  /\ built.root.properties[1].value.type = "Object"
  /\ Len(built.root.properties[2].value.elements) = 2

RECURSIVE WithinSource(_, _)

\* the children of a node are within a text of the given length
KidsWithin(kids, length) == \A i \in 1..Len(kids) : WithinSource(kids[i], length)

\* a node and every node under it span at least one character of a text
\* of the given length
WithinSource(node, length) ==
  /\ 0 <= node.start
  /\ node.start < node.end
  /\ node.end <= length
  /\ KidsWithin(Kids(node), length)

\* C19: when tokenize() and build() return, every node of the tree, the
\* keys included, has 0 <= start < end <= the length of the source.
NodesWithinSource == Built => WithinSource(built.root, Len(sourceText))

\* the members of a container: for a property, the span from the start of
\* its key to the end of its value
Members(node) ==
  IF node.type = "Object"
  THEN [i \in 1..Len(node.properties) |->
          [start |-> node.properties[i].key.start,
           end |-> node.properties[i].value.end]]
  ELSE IF node.type = "Array" THEN node.elements
  ELSE << >>

\* one of the tokens is a comma between the two offsets
CommaBetween(tokens, from, to) ==
  \E i \in 1..Len(tokens) :
    /\ tokens[i].type = "comma"
    /\ from <= tokens[i].start
    /\ tokens[i].end <= to

RECURSIVE CommaSeparated(_, _)

\* a comma token stands between each member and the next
MembersSeparated(tokens, members) ==
  \A i \in 1..Len(members) :
    i < Len(members) => CommaBetween(tokens, members[i].end, members[i + 1].start)

\* the nodes under a node are comma separated too
KidsSeparated(tokens, kids) ==
  \A i \in 1..Len(kids) : CommaSeparated(tokens, kids[i])

\* in a node and in every container under it, a comma token stands
\* between two consecutive members
CommaSeparated(tokens, node) ==
  /\ MembersSeparated(tokens, Members(node))
  /\ KidsSeparated(tokens, Kids(node))

\* C20: build() returns no tree for a source in which two consecutive
\* members of an object or an array have no comma between them: in every
\* tree it returns, a comma token stands between each member and the next.
MissingCommaFails == Built => CommaSeparated(tokenize(sourceText).tokens, built.root)

\* the characters that start a token: whitespace, a quote, the start of a
\* number, a letter, a comment opener, the six punctuation characters
StartsToken(ch, next) ==
  \/ ch \in {" ", "\n", "\r", "\t", "\"", "-"}
  \/ ch \in Digits
  \/ ch \in LowerLetters \cup UpperLetters
  \/ ch = "/" /\ next \in {"/", "*"}
  \/ ch \in {"{", "}", "[", "]", ":", ","}

\* the maximal run of letters that starts at pos
LetterRun(text, pos) ==
  slice(text, pos, skipWhile(text, pos, LowerLetters \cup UpperLetters))

Keywords ==
  {<<"t", "r", "u", "e">>, <<"f", "a", "l", "s", "e">>, <<"n", "u", "l", "l">>}

\* at pos stands a word that is no keyword, or a character that starts no
\* token
NotLexed(text, pos) ==
  IF At(text, pos) \in LowerLetters \cup UpperLetters
  THEN LetterRun(text, pos) \notin Keywords
  ELSE ~StartsToken(At(text, pos), At(text, pos + 1))

RECURSIVE FirstNotLexed(_, _)

\* the first offset from pos on, outside the strings, comments and other
\* tokens before it, where a rejected word or character stands; -1 when
\* there is none
FirstNotLexed(text, pos) ==
  IF pos >= Len(text) THEN 0 - 1
  ELSE IF NotLexed(text, pos) THEN pos
  ELSE FirstNotLexed(text, readToken(text, pos, At(text, pos)).token.end)

\* tokenize() has raised the error of the word or character at offset at
RaisedAt(text, at) ==
  /\ ~lexed.ok
  /\ "tokens" \notin DOMAIN lexed
  /\ IF isAlpha(At(text, at))
     THEN lexed.error.message = "Unexpected identifier"
     ELSE lexed.error = Err("Unexpected character", [ch |-> At(text, at), at |-> at])

\* tokenize() has ended on a text with a rejected word or character at
\* offset at, when at is not -1
NotLexedAt(text, at) == call = "tokenize" /\ pc = "done" /\ at >= 0

\* C21: tokenize() raises an error and returns no tokens when, outside a
\* string or comment, it meets a run of letters that is not true, false
\* or null (unexpected identifier) or a character that starts no token
\* (unexpected character, with the character and its offset).
TokenizeRejects ==
  NotLexedAt(sourceText, FirstNotLexed(sourceText, 0))
    => RaisedAt(sourceText, FirstNotLexed(sourceText, 0))

\* tokenize() has raised the error of a character that starts no token,
\* met after a line comment that holds such a character too
TokenizeRejectsWitness ==
  /\ call = "tokenize" /\ pc = "done"
  /\ sourceText = <<"/", "/", "+", "\n", "@">>
  /\ FirstNotLexed(sourceText, 0) = 4
  /\ lexed.error = Err("Unexpected character", [ch |-> "@", at |-> 4])

\* the entries are in strictly descending order of the start of their nodes
StrictlyDescending(entries) ==
  \A i \in 1..(Len(entries) - 1) : entries[i].node.start > entries[i + 1].node.start

\* the working text agrees with the source text on [0, to)
AgreesUpTo(to) == slice(result, 0, to) = slice(sourceText, 0, to)

\* C22: in the splice loop of replace the targets still to process are in
\* strictly descending start order, and the working text agrees with the
\* source text up to the end of the node that is about to be spliced, so
\* the offsets of the node still delimit its text.
ReplaceLoopInvariant ==
  (call = "replace" /\ pc = "replace.splice")
    => /\ StrictlyDescending(work)
       /\ work # << >> => AgreesUpTo(Head(work).node.end)

\* the loop of replace has rewritten the text once, changing its length,
\* and has a second target to splice
ReplaceLoopInvariantWitness ==
  /\ call = "replace" /\ pc = "replace.splice"
  /\ splices = 1
  /\ Len(result) # Len(sourceText)
  /\ work # << >>

\* resolvePath has returned for the two spellings of a step sequence
SpelledBoth == call = "resolvePath" /\ pc = "done" /\ Len(patches) = 2

\* the two spellings parse to the same steps and resolve to the same node
SameSteps ==
  /\ parsePath(patches[1].path) = parsePath(patches[2].path)
  /\ work[1].node = work[2].node

\* one of the steps is a key made of digits only
SomeDigitKey(steps) ==
  \E i \in 1..Len(steps) : has(steps[i], "key") /\ allDigits(steps[i].key)

\* a segment decoded from left to right: ~0 is ~, ~1 is /
RECURSIVE TildeDecoded(_)
TildeDecoded(segment) ==
  IF segment = << >> THEN << >>
  ELSE IF Len(segment) >= 2 /\ segment[1] = "~" /\ segment[2] = "0"
  THEN <<"~">> \o TildeDecoded(SubSeq(segment, 3, Len(segment)))
  ELSE IF Len(segment) >= 2 /\ segment[1] = "~" /\ segment[2] = "1"
  THEN <<"/">> \o TildeDecoded(SubSeq(segment, 3, Len(segment)))
  ELSE <<segment[1]>> \o TildeDecoded(Tail(segment))

\* resolvePath has returned for a pointer of one segment that is not
\* made of digits only
ResolvedTilde ==
  /\ call = "resolvePath" /\ pc = "done" /\ Len(patches) = 1
  /\ patches[1].path \in TildePaths
  /\ ~allDigits(Tail(patches[1].path))

\* the pointer of one segment parses to the step of the decoded segment
TildesDecoded ==
  ResolvedTilde
    => parsePath(patches[1].path).parts = <<StringStep(TildeDecoded(Tail(patches[1].path)))>>

\* C23, as claimed: for every sequence of steps made of keys written with
\* identifier characters and of non-negative indices, the dot notation
\* and the JSON Pointer spelling parse to the same steps and resolve to
\* the same node; in a pointer ~1 decodes to /, ~0 to ~ and ~01 to ~1.
SpellingsAgree ==
  /\ SpelledBoth => SameSteps
  /\ TildesDecoded

\* C23: the dot notation and the JSON Pointer spelling of a sequence of
\* steps made of indices and of identifier keys that are not made of
\* digits only parse to the same steps and resolve to the same node; in a
\* pointer ~1 decodes to /, ~0 to ~ and ~01 to ~1.
SpellingsAgreeOffDigitKeys ==
  /\ (SpelledBoth /\ ~SomeDigitKey(patches[1].steps)) => SameSteps
  /\ TildesDecoded

\* c[1] and /c/1 have both resolved to the second element of the array c
SpellingsAgreeOffDigitKeysWitness ==
  /\ SpelledBoth
  /\ sourceText = DocNested
  /\ patches[1].path = PathC1
  /\ patches[2].path = <<"/", "c", "/", "1">>
  /\ work[1].node # Null
  /\ work[1].node = parse(sourceText).root.properties[2].value.elements[2]
  /\ work[2].node = work[1].node

\* every patch of the call resolves to a container, and no two to the same
DistinctContainers ==
  /\ \A i \in 1..Len(patches) :
       NodeOf(i) # Null /\ NodeOf(i).type \in {"Object", "Array"}
  /\ \A i, j \in 1..Len(patches) : i # j => NodeOf(i) # NodeOf(j)

\* no text: a call of the sequence has not returned
NoText == <<"no text">>

RECURSIVE OneByOne(_, _, _)

\* the sequence of calls goes on from what call i has given
OneByOneAfter(out, ps, i) ==
  IF out.status = "returned" THEN OneByOne(out.text, ps, i + 1) ELSE NoText

\* the text that the patches from patch i on give when each is applied by
\* an insert call of its own on the text the call before has returned
OneByOne(text, ps, i) ==
  IF i > Len(ps) THEN text
  ELSE OneByOneAfter(insert(text, <<ps[i]>>), ps, i)

\* insert has returned from a call with two patches or more that resolve
\* to distinct containers
InsertedIntoDistinct ==
  /\ call = "insert" /\ pc = "done" /\ outcome.status = "returned"
  /\ Resolvable
  /\ Len(patches) >= 2
  /\ DistinctContainers

\* C24: an insert call whose patches resolve to pairwise distinct
\* containers, one of which may lie inside another, returns the text that
\* the same patches give when applied one per insert call, each call on
\* the text the call before has returned.
InsertAsOneByOne == InsertedIntoDistinct => outcome.text = OneByOne(sourceText, patches, 1)

\* the keys of the patches are pairwise distinct
DistinctKeys ==
  \A i, j \in 1..Len(patches) :
    i # j => has(patches[i], "key") /\ has(patches[j], "key")
               /\ patches[i].key # patches[j].key

\* insert has returned from a call whose patches all resolve to the same
\* container, with distinct keys when it is an object
InsertedIntoOne ==
  /\ call = "insert" /\ pc = "done" /\ outcome.status = "returned"
  /\ Resolvable
  /\ Len(patches) >= 1
  /\ NodeOf(1) # Null
  /\ NodeOf(1).type \in {"Object", "Array"}
  /\ \A i \in 1..Len(patches) : NodeOf(i) = NodeOf(1)
  /\ NodeOf(1).type = "Object" => DistinctKeys

\* the texts of the values of the members of a container of a text
MemberTexts(node, text) ==
  IF node.type = "Object" THEN ValueTexts(node, text) ELSE ElementTexts(node, text)

\* how many entries of a sequence are v
Count(seq, v) == Cardinality({i \in 1..Len(seq) : seq[i] = v})

\* the values of the patches of the call
PatchValues == [i \in 1..Len(patches) |-> patches[i].value]

\* the container read back has one member more per patch, and each value
\* of a patch is the text of as many more members as patches have it
GrownBy(before, after) ==
  /\ after # Null
  /\ after.type = before.type
  /\ Len(Members(after)) = Len(Members(before)) + Len(patches)
  /\ \A i \in 1..Len(patches) :
       Count(MemberTexts(after, outcome.text), patches[i].value)
         = Count(MemberTexts(before, sourceText), patches[i].value)
             + Count(PatchValues, patches[i].value)

\* C25: when an insert call with k patches that all resolve to the same
\* container of n members returns, the returned text parses and the
\* container read back from it has n + k members, each inserted value
\* being a member of its own; n may be 0.
InsertGrowsContainer ==
  InsertedIntoOne => parse(outcome.text).ok /\ GrownBy(NodeOf(1), NodeAfter)

\* C26: resolvePath ends for every path: no call of replace, insert or
\* batch is left inside the loop of parseDotPath, whatever characters the
\* path has.
PathParsingEnds == pc # "hung"

\* the call has ended with the conflict error
ConflictRaised ==
  outcome.status = "threw" /\ outcome.error.message = "Patch conflict at path"

\* C27: a replace call on a text that parses raises the conflict error
\* exactly when two of its patches resolve to spans that overlap: when the
\* resolved spans are pairwise disjoint it returns, in whatever order the
\* patches are listed and however many resolve to no node.
ConflictIffOverlap ==
  (call = "replace" /\ pc = "done" /\ Resolvable)
    => IF Overlapping THEN ConflictRaised ELSE outcome.status = "returned"

\* replace has returned from a call whose two patches resolve to disjoint
\* spans and are listed in document order
ConflictIffOverlapWitness ==
  /\ call = "replace" /\ pc = "done" /\ Resolvable
  /\ Len(patches) = 2
  /\ Found = {1, 2}
  /\ NodeOf(1).end <= NodeOf(2).start
  /\ outcome.status = "returned"
  /\ splices = 2

\* every token that starts at or after the offset is whitespace or a
\* comment
OnlyTriviaFrom(tokens, from) ==
  \A i \in 1..Len(tokens) :
    tokens[i].start >= from => tokens[i].type \in {"whitespace", "comment"}

\* C28: build() returns a tree only when the whole token sequence has
\* been consumed: in a source for which it returns, nothing but
\* whitespace and comments stands after the end of the root value.
BuildConsumesAll == Built => OnlyTriviaFrom(tokenize(sourceText).tokens, built.root.end)

\* the steps that the path of patch i parses to
PartsOf(i) == parsePath(patches[i].path).parts

\* the node that the steps of patch i before the last one lead to
ParentOf(i) ==
  resolveParts(parse(sourceText).root, SubSeq(PartsOf(i), 1, Len(PartsOf(i)) - 1),
               sourceText)

\* the last step of patch i is of the given type and is applied to a node
\* of the given type
LastStepOn(i, stepType, nodeType) ==
  /\ Len(PartsOf(i)) >= 1
  /\ PartsOf(i)[Len(PartsOf(i))].t = stepType
  /\ ParentOf(i) # Null
  /\ ParentOf(i).type = nodeType

\* a number applied to an object and a string applied to an array give
\* not-found
Mismatched(i) ==
  \/ LastStepOn(i, "number", "Object")
  \/ LastStepOn(i, "string", "Array")

\* how the two spellings type step j: an index is a number in both, a key
\* is a string in dot notation, and in a pointer a number when it is made
\* of digits only
TypedAsWritten(steps, j) ==
  IF has(steps[j], "index")
  THEN PartsOf(1)[j] = NumberStep(steps[j].index)
         /\ PartsOf(2)[j] = NumberStep(steps[j].index)
  ELSE PartsOf(1)[j] = StringStep(steps[j].key)
         /\ PartsOf(2)[j].t = IF allDigits(steps[j].key) THEN "number" ELSE "string"

\* C29: a step is never coerced: a numeric step (a pointer segment made
\* of digits only, a dot-notation [n]) applied to an object gives
\* not-found even when the object has a property with that digit string
\* as its key, and a string step (the 0 of a.0) applied to an array gives
\* not-found.
StepsAreNotCoerced ==
  (call = "resolvePath" /\ pc = "done")
    => /\ \A i \in 1..Len(patches) : Mismatched(i) => work[i].node = Null
       /\ Len(patches) = 2
            => \A j \in 1..Len(patches[1].steps) : TypedAsWritten(patches[1].steps, j)

\* on an object with the key 0 the dot notation 0 has resolved to the
\* property and the pointer /0 to not-found
StepsAreNotCoercedWitness ==
  /\ call = "resolvePath" /\ pc = "done" /\ Len(patches) = 2
  /\ sourceText = DocDigitKey
  /\ patches[1].path = <<"0">>
  /\ patches[2].path = <<"/", "0">>
  /\ work[1].node = parse(sourceText).root.properties[1].value
  /\ Mismatched(2)
  /\ work[2].node = Null

====
